---- MODULE Spec2Model ----
(***************************************************************************)
(* Model of firecracker-rs-sdk: the rollback stack (src/fstack.rs), the    *)
(* Instance lifecycle (src/instance/mod.rs, rt_std.rs, rt_async.rs) and    *)
(* the chroot strategy (src/jailer.rs).                                    *)
(*                                                                         *)
(* A path is its sequence of components, an absolute path starting with    *)
(* the root component "/"; an Option<u32> is a number or NoPid; an         *)
(* Option<PathBuf> is a path or NoPath; a file's text is a sequence of     *)
(* one-character strings.                                                  *)
(***************************************************************************)
EXTENDS Integers, Sequences, FiniteSets, TLC

\* ---------------------------------------------------------------- bounds
MaxPid == 2
MaxCalls == 2
MaxPush == 3
MaxOsFailures == 1

\* ------------------------------------------------------------- constants
NoPid == -1
NoPath == <<>>

Pids == 1..MaxPid

\* ----------------------------------------------------------------- paths
\* DEFAULT_CHROOT_BASE_DIR / exec_file_name / id / "root"
WorkspaceDir == <<"/", "srv", "jailer", "firecracker", "vm", "root">>
DEFAULT_API_SOCK == <<"/", "run", "firecracker.socket">>
ExecFileName == "firecracker"

IsPrefix(p, q) == Len(p) <= Len(q) /\ SubSeq(q, 1, Len(p)) = p

Last(s) == s[Len(s)]

RECURSIVE Reverse(_)
Reverse(s) == IF s = <<>> THEN <<>> ELSE Append(Reverse(Tail(s)), Head(s))

\* ------------------------------------------------------ ChrootStrategy
\* Path::file_name: the final component when it is a normal one; none
\* (NoPath) for the empty path, the root, and a path ending in "..".
file_name(path) ==
    IF path = <<>> \/ Last(path) \in {"/", ".."} THEN NoPath ELSE <<Last(path)>>

is_absolute(path) == path # <<>> /\ Head(path) = "/"

\* A chroot_path whose Full strategy joins the absolute host path as it
\* is: Path::join with an absolute path yields that path.
chroot_path_unstripped(strategy, rootfs, path_on_host) ==
    IF strategy = "NaiveLinkStrategy"
    THEN IF file_name(path_on_host) = NoPath
         THEN NoPath
         ELSE rootfs \o file_name(path_on_host)
    ELSE IF is_absolute(path_on_host)
         THEN path_on_host
         ELSE rootfs \o path_on_host

\* A chroot_path whose Naive strategy returns the file name alone, not
\* joined to rootfs.
chroot_path_unjoined(strategy, rootfs, path_on_host) ==
    IF strategy = "NaiveLinkStrategy"
    THEN file_name(path_on_host)
    ELSE IF is_absolute(path_on_host)
         THEN rootfs \o Tail(path_on_host)
         ELSE rootfs \o path_on_host

\* chroot_path: the jailed path of path_on_host under rootfs; NoPath is
\* Err(Error::Configuration).
chroot_path(strategy, rootfs, path_on_host) ==
    IF strategy = "NaiveLinkStrategy"
    THEN IF file_name(path_on_host) = NoPath
         THEN NoPath
         ELSE rootfs \o file_name(path_on_host)
    ELSE IF is_absolute(path_on_host)
         THEN rootfs \o Tail(path_on_host)
         ELSE rootfs \o path_on_host

\* A strip_prefix that hands the path back whole.
keep_prefix(path, base) == path

\* Path::strip_prefix(base): the remainder, relative; NoPath is Err.
strip_prefix(path, base) ==
    IF IsPrefix(base, path) /\ Len(path) > Len(base)
    THEN SubSeq(path, Len(base) + 1, Len(path))
    ELSE NoPath

parent(path) == SubSeq(path, 1, Len(path) - 1)

\* ------------------------------------------------------ pid file parsing
Digits == {"0", "1", "2", "3", "4", "5", "6", "7", "8", "9"}

DigitVal(c) ==
    CASE c = "0" -> 0 [] c = "1" -> 1 [] c = "2" -> 2 [] c = "3" -> 3
      [] c = "4" -> 4 [] c = "5" -> 5 [] c = "6" -> 6 [] c = "7" -> 7
      [] c = "8" -> 8 [] c = "9" -> 9

RECURSIVE DecimalValue(_)
DecimalValue(s) ==
    IF s = <<>> THEN 0
    ELSE DecimalValue(SubSeq(s, 1, Len(s) - 1)) * 10 + DigitVal(Last(s))

\* u32::MAX in decimal; a digit string is compared with it digit by digit.
U32MaxText == <<"4", "2", "9", "4", "9", "6", "7", "2", "9", "5">>

\* The digits of a decimal text, without the sign "+" str::parse allows.
StripPlus(text) == IF text # <<>> /\ Head(text) = "+" THEN Tail(text) ELSE text

RECURSIVE StripZeros(_)
StripZeros(s) ==
    IF s # <<>> /\ Head(s) = "0" THEN StripZeros(Tail(s)) ELSE s

RECURSIVE DigitsLeq(_, _)
DigitsLeq(a, b) ==
    IF a = <<>> THEN TRUE
    ELSE IF DigitVal(Head(a)) # DigitVal(Head(b))
    THEN DigitVal(Head(a)) < DigitVal(Head(b))
    ELSE DigitsLeq(Tail(a), Tail(b))

FitsU32(digits) ==
    LET significant == StripZeros(digits)
    IN  \/ Len(significant) < Len(U32MaxText)
        \/ Len(significant) = Len(U32MaxText) /\ DigitsLeq(significant, U32MaxText)

\* str::parse::<u32>: an optional leading "+", then one or more decimal
\* digits and nothing else (no whitespace, no "-"), value at most u32::MAX.
\* NoPid stands for Err(ParseIntError).
ParseU32(text) ==
    LET body == StripPlus(text)
    IN  IF /\ body # <<>>
           /\ \A i \in 1..Len(body) : body[i] \in Digits
           /\ FitsU32(body)
        THEN DecimalValue(body)
        ELSE NoPid

\* The texts a pid file is tried with: empty, plain numbers, a signed
\* number, a number with a trailing newline, and 2^32.
OverflowText == <<"4", "2", "9", "4", "9", "6", "7", "2", "9", "6">>

PidTexts == {<<>>, <<"1">>, <<"2">>, <<"1", "2">>, <<"+", "1">>, <<"-", "1">>,
             <<"1", "\n">>, OverflowText}

\* read_to_string(pid_file) failing: there is no such file.
NoFile == <<"ENOENT">>

\* ------------------------------------------------------------ FStackAction
RemoveDirectory(dir) == [kind |-> "RemoveDirectory", path |-> dir, pid |-> NoPid]
RemoveFile(path) == [kind |-> "RemoveFile", path |-> path, pid |-> NoPid]
TerminateProcess(pid) == [kind |-> "TerminateProcess", path |-> NoPath, pid |-> pid]

VARIABLES
    \* Instance fields (src/instance/mod.rs)
    socket_on_host,
    jailer_workspace_dir,
    chroot_strategy,
    remove_jailer_workspace_dir,
    child,
    agent,
    fstack,
    jailer_pid,
    firecracker_pid,
    \* the host: files, directories, the pid file's text, signals delivered
    files,
    dirs,
    pidfile,
    signalled,
    \* the control channel: requests written, in order
    sent,
    \* observation of the run
    phase,
    lastOp,
    result,
    executed,
    \* the positions in `executed` of the actions whose operation failed
    failed,
    pushed,
    spawned,
    okStarts,
    calls,
    \* the last call's method and payload paths, and the host and socket
    \* operations it made, in the order made
    called,
    effects,
    \* SocketAgent::new (src/agent): the runtime feature, the position in
    \* the function, its timeout argument, start.elapsed() in milliseconds,
    \* connect attempts and sleeps made, the result kind of the last
    \* attempt, the socket states the function met, the socket's state now
    rt,
    connPc,
    timeout,
    elapsed,
    attempts,
    sleeps,
    lastKind,
    seen,
    socketState,
    \* SocketAgent::recv_response: the bytes the peer wrote and whether it
    \* keeps the stream open, the bytes consumed, the local buf and vec,
    \* the sizes the reads returned, the position, WouldBlock retries
    peer,
    peerOpen,
    readPos,
    buf,
    vec,
    chunks,
    recvPc,
    wouldBlocks,
    \* ChrootStrategy on its own: the path chroot_path last returned
    linkPath,
    \* SocketAgent::event: for every call issued, in order, its method, its
    \* position and the steps it made; the calls whose request was written
    \* to the stream, in the order written
    evs,
    wire,
    \* the codec (src/events): the request being encoded and its bytes, the
    \* response bytes handed to decode and what decode made of them
    codecEvent,
    encoded,
    response,
    decoded

connectVars == <<rt, connPc, timeout, elapsed, attempts, sleeps, lastKind,
                 seen, socketState>>

recvVars == <<peer, peerOpen, readPos, buf, vec, chunks, recvPc, wouldBlocks>>

agentVars == <<connectVars, recvVars>>

eventVars == <<evs, wire>>

codecVars == <<codecEvent, encoded, response, decoded>>

unitVars == <<linkPath, eventVars, codecVars>>

vars == <<socket_on_host, jailer_workspace_dir, chroot_strategy,
          remove_jailer_workspace_dir, child, agent, fstack, jailer_pid,
          firecracker_pid, files, dirs, pidfile, signalled, sent, phase,
          lastOp, result, executed, failed, pushed, spawned, okStarts, calls,
          called, effects, agentVars, unitVars>>

instanceFields == <<socket_on_host, jailer_workspace_dir, chroot_strategy,
                    remove_jailer_workspace_dir, child, agent, jailer_pid,
                    firecracker_pid>>

configFields == <<socket_on_host, jailer_workspace_dir, chroot_strategy,
                  remove_jailer_workspace_dir>>

hostVars == <<files, dirs, pidfile, signalled>>

Range(s) == {s[i] : i \in 1..Len(s)}

\* ------------------------------------------------------------ FStack::drop
\* One popped action applied to the host.  osOk is whether the operating
\* system call made by the action succeeds (kill spawned, unlink or
\* remove_dir_all permitted); the action is logged as executed either way.
Execute(action, osOk, host) ==
    LET logged == [host EXCEPT !.executed = Append(@, action)]
        \* the arm's error!(..): the failure is logged and nothing else
        errored == [logged EXCEPT !.failed = @ \cup {Len(logged.executed)}]
    IN  CASE action.kind = "RemoveDirectory" ->
               IF action.path \in host.dirs /\ osOk
               THEN [logged EXCEPT
                       !.dirs = {d \in @ : ~IsPrefix(action.path, d)},
                       !.files = {f \in @ : ~IsPrefix(action.path, f)}]
               ELSE errored
          [] action.kind = "RemoveFile" ->
               IF action.path \in host.files /\ osOk
               THEN [logged EXCEPT !.files = @ \ {action.path}]
               ELSE errored
          [] action.kind = "TerminateProcess" ->
               IF osOk
               THEN [logged EXCEPT !.signalled = @ \cup {action.pid}]
               ELSE errored

\* A drop that runs the actions in push order, first pushed first.
RECURSIVE RollbackFifo(_, _, _)
RollbackFifo(inner, osOk, host) ==
    IF inner = <<>> THEN host
    ELSE RollbackFifo(Tail(inner), [i \in 1..(Len(inner) - 1) |-> osOk[i + 1]],
                      Execute(Head(inner), osOk[1], host))

\* A drop that gives up at the first action whose operation fails.
RECURSIVE RollbackStopAtFailure(_, _, _)
RollbackStopAtFailure(inner, osOk, host) ==
    IF inner = <<>> THEN host
    ELSE LET n == Len(inner)
             after == Execute(inner[n], osOk[n], host)
         IN  IF after.failed # host.failed THEN after
             ELSE RollbackStopAtFailure(SubSeq(inner, 1, n - 1), osOk, after)

\* impl Drop for FStack: pop until empty, last pushed first.
RECURSIVE Rollback(_, _, _)
Rollback(inner, osOk, host) ==
    IF inner = <<>> THEN host
    ELSE LET n == Len(inner)
         IN  Rollback(SubSeq(inner, 1, n - 1), osOk,
                      Execute(inner[n], osOk[n], host))

Host == [files |-> files, dirs |-> dirs, signalled |-> signalled,
         executed |-> executed, failed |-> failed]

\* A drop that forgets the stack without running any action.
FStackDropForget(inner) ==
    /\ fstack' = <<>>
    /\ UNCHANGED <<files, dirs, signalled, executed, failed>>

\* Dropping the stack `inner`: every popped action acts on the host; the
\* operating system refuses the calls of the actions at the positions in
\* `refused`.
FStackDrop(inner) ==
    \E refused \in {r \in SUBSET (1..Len(inner)) : Cardinality(r) <= MaxOsFailures} :
        LET osOk == [i \in 1..Len(inner) |-> i \notin refused]
            after == Rollback(inner, osOk, Host)
        IN  /\ files' = after.files
            /\ dirs' = after.dirs
            /\ signalled' = after.signalled
            /\ executed' = after.executed
            /\ failed' = after.failed
            /\ fstack' = <<>>

\* A push that puts the action under those already on the stack.
push_action_under(inner, action) == <<action>> \o inner

\* FStack::push_action
push_action(inner, action) == Append(inner, action)

\* A cancel that does not clear the stack before it goes out of scope.
cancel_without_clear(inner) == inner

\* FStack::cancel: clear, then the emptied stack is dropped at scope end.
cancelled(inner) == <<>>

\* ---------------------------------------------------------- Instance::new
\* firecracker.rs spawn(): bare, (socket, None, None, None);
\* jailer.rs spawn(): (FullLinkStrategy.chroot_path(workspace, api_sock),
\* Some(workspace), Some(strategy), remove_jailer_workspace_dir).
JailedSocket == chroot_path("FullLinkStrategy", WorkspaceDir, DEFAULT_API_SOCK)

InitrdFile == <<"/", "run", "i.img">>

HostFiles == {<<"/", "a", "k.img">>, <<"/", "run", "k.img">>, InitrdFile}

NewInstance ==
    /\ \/ /\ jailer_workspace_dir = NoPath
          /\ socket_on_host = DEFAULT_API_SOCK
          /\ chroot_strategy = "None"
          /\ remove_jailer_workspace_dir = "None"
       \/ /\ jailer_workspace_dir = WorkspaceDir
          /\ socket_on_host = JailedSocket
          /\ chroot_strategy \in {"NaiveLinkStrategy", "FullLinkStrategy"}
          /\ remove_jailer_workspace_dir \in {"None", "Some(true)", "Some(false)"}
    /\ child = NoPid
    /\ agent = FALSE
    /\ fstack = <<>>
    /\ jailer_pid = NoPid
    /\ firecracker_pid = NoPid

FreshHost ==
    /\ files = HostFiles
    /\ dirs = {<<"/">>, <<"/", "a">>, <<"/", "run">>}
    /\ pidfile = <<>>
    /\ signalled = {}

Self == [socket_on_host |-> socket_on_host,
         jailer_workspace_dir |-> jailer_workspace_dir,
         remove_jailer_workspace_dir |-> remove_jailer_workspace_dir,
         child |-> child, agent |-> agent, fstack |-> fstack,
         jailer_pid |-> jailer_pid, firecracker_pid |-> firecracker_pid,
         result |-> result]

\* ------------------------------------------------------ Instance::start_vmm
\* What the spawned program leaves at the socket path while start_vmm
\* waits, and what SocketAgent::new(socket, 3 s) returns for it.
SockStates == {"listening", "absent", "refused", "denied"}

ConnectResult(sock) ==
    CASE sock = "listening" -> "Ok"
      [] sock \in {"absent", "refused"} -> "Err(Agent: Connection timed out)"
      [] sock = "denied" -> "Err(IO: connect)"

PidFile(root) == Append(root, ExecFileName \o ".pid")

\* "get pids" recording the pid file's number as the jailer pid too.
DiscoverPidsJailerFromFile(connected, pid, text) ==
    IF connected.jailer_workspace_dir # NoPath
    THEN IF text = NoFile \/ ParseU32(text) = NoPid
         THEN [connected EXCEPT !.result = "panic"]
         ELSE [connected EXCEPT
                 !.jailer_pid = ParseU32(text),
                 !.firecracker_pid = ParseU32(text),
                 !.fstack = push_action(@, TerminateProcess(ParseU32(text))),
                 !.result = "Ok"]
    ELSE [connected EXCEPT
            !.jailer_pid = NoPid,
            !.firecracker_pid = pid,
            !.fstack = push_action(@, TerminateProcess(pid)),
            !.result = "Ok"]

\* "get pids" taking the spawned id as the guest pid even when jailed, and
\* recording it as the jailer pid even when bare.
DiscoverPidsGuestFromChild(connected, pid, text) ==
    IF connected.jailer_workspace_dir # NoPath /\ (text = NoFile \/ ParseU32(text) = NoPid)
    THEN [connected EXCEPT !.result = "panic"]
    ELSE [connected EXCEPT
            !.jailer_pid = pid,
            !.firecracker_pid = pid,
            !.fstack = push_action(@, TerminateProcess(pid)),
            !.result = "Ok"]

\* start_vmm, "get pids": the pid fields and the terminate action, once
\* the agent is connected.  text is what read_to_string(pid_file) yields;
\* .result is "panic" for an unwrap() on Err.
DiscoverPids(connected, pid, text) ==
    IF connected.jailer_workspace_dir # NoPath
    THEN IF text = NoFile \/ ParseU32(text) = NoPid
         THEN [connected EXCEPT !.result = "panic"]
         ELSE [connected EXCEPT
                 !.jailer_pid = pid,
                 !.firecracker_pid = ParseU32(text),
                 !.fstack = push_action(@, TerminateProcess(ParseU32(text))),
                 !.result = "Ok"]
    ELSE [connected EXCEPT
            !.jailer_pid = NoPid,
            !.firecracker_pid = pid,
            !.fstack = push_action(@, TerminateProcess(pid)),
            !.result = "Ok"]

\* A start_vmm that registers the removal whenever there is a workspace.
removes_workspace_unflagged(self) == self.jailer_workspace_dir # NoPath

\* start_vmm: `if let (Some(true), Some(path)) =
\* (self.remove_jailer_workspace_dir, &self.jailer_workspace_dir)`.
removes_workspace(self) ==
    /\ self.remove_jailer_workspace_dir = "Some(true)"
    /\ self.jailer_workspace_dir # NoPath

\* The statements of start_vmm after a successful command.spawn(): the
\* Instance it leaves, with the call's outcome in .result.  pid is
\* child.id(), connect the outcome of SocketAgent::new.
StartVmm(self, pid, connect, text) ==
    LET spawnedSelf == [self EXCEPT !.child = pid]
        guarded ==
            IF removes_workspace(self)
            THEN [spawnedSelf EXCEPT !.fstack =
                    push_action(@, RemoveDirectory(self.jailer_workspace_dir))]
            ELSE spawnedSelf
        connected ==
            [guarded EXCEPT !.agent = TRUE,
                            !.fstack = push_action(@, RemoveFile(self.socket_on_host))]
    IN  IF connect # "Ok"
        THEN [guarded EXCEPT !.result = connect]
        ELSE DiscoverPids(connected, pid, text)

\* What the spawned jailer / firecracker puts on the host.
SpawnedFiles(sock, text) ==
    (IF sock # "absent" THEN {socket_on_host} ELSE {})
    \cup (IF text # NoFile THEN {PidFile(jailer_workspace_dir)} ELSE {})

SpawnedDirs ==
    IF jailer_workspace_dir # NoPath
    THEN {jailer_workspace_dir, parent(socket_on_host)}
    ELSE {}

\* start_vmm when command.spawn() fails: `?` returns the io error.
start_vmm_spawn_failed ==
    /\ phase = "live"
    /\ lastOp' = "start_vmm"
    /\ result' = "Err(IO: spawn)"
    /\ UNCHANGED <<instanceFields, fstack, hostVars, sent, phase, executed, failed,
                   pushed, spawned, okStarts, calls, called, effects, agentVars, unitVars>>

\* start_vmm when the spawn yields child `pid`, the spawned program leaves
\* the socket in state `sock` and the pid file holds `text`.
start_vmm_spawned(pid, sock, text) ==
    LET pidPath == PidFile(jailer_workspace_dir)
        read == IF text # NoFile THEN text
                ELSE IF pidPath \in files THEN pidfile ELSE NoFile
        after == StartVmm(Self, pid, ConnectResult(sock), read)
    IN  /\ phase = "live"
        /\ pid \notin Range(spawned)
        /\ jailer_workspace_dir = NoPath => text = NoFile
        /\ socket_on_host \in files => sock # "absent"
        /\ lastOp' = "start_vmm"
        /\ child' = after.child
        /\ agent' = after.agent
        /\ fstack' = after.fstack
        /\ jailer_pid' = after.jailer_pid
        /\ firecracker_pid' = after.firecracker_pid
        /\ result' = after.result
        /\ files' = files \cup SpawnedFiles(sock, text)
        /\ dirs' = dirs \cup SpawnedDirs
        /\ pidfile' = IF text = NoFile THEN pidfile ELSE text
        /\ pushed' = pushed \o SubSeq(after.fstack, Len(fstack) + 1,
                                      Len(after.fstack))
        /\ spawned' = Append(spawned, pid)
        /\ okStarts' = IF after.result = "Ok" THEN okStarts + 1 ELSE okStarts
        /\ UNCHANGED <<configFields, signalled, sent, phase, executed, failed, calls,
                       called, effects, agentVars, unitVars>>

start_vmm ==
    \/ start_vmm_spawn_failed
    \/ \E pid \in Pids, sock \in SockStates, text \in PidTexts \cup {NoFile} :
          /\ sock # "listening" => text \in {NoFile, <<"1">>}
          /\ start_vmm_spawned(pid, sock, text)

\* ------------------------------------------------------- Instance teardown
\* Dropping the Instance drops its fields: the FStack rolls back; the Child
\* handle and the agent's stream are closed without signalling anything.
drop_instance ==
    /\ phase = "live"
    /\ phase' = "dropped"
    /\ lastOp' = "drop"
    /\ FStackDrop(fstack)
    /\ UNCHANGED <<instanceFields, pidfile, sent, result, pushed, spawned,
                   okStarts, calls, called, effects, agentVars, unitVars>>

\* ------------------------------------------- configuration / control calls
\* Methods whose body is check_agent_exists! followed by agent.event(..).
PlainMethods == {"event", "describe_instance", "get_machine_configuration",
                 "put_machine_configuration", "create_sync_action", "patch_vm",
                 "start", "pause", "resume", "stop"}

\* Methods that link_file every path of the payload before agent.event(..).
LinkMethods == {"put_guest_boot_source", "put_guest_drive_by_id",
                "patch_guest_drive_by_id", "put_logger", "put_metrics",
                "put_guest_vsock", "load_snapshot"}

Methods == PlainMethods \cup LinkMethods \cup {"create_snapshot"}

\* start/stop wrap create_sync_action, pause/resume wrap patch_vm.
Endpoint(method) ==
    CASE method \in {"start", "stop"} -> "create_sync_action"
      [] method \in {"pause", "resume"} -> "patch_vm"
      [] OTHER -> method

HostPaths == (HostFiles \ {InitrdFile}) \cup {<<"/", "a", "..">>}

\* The host paths a call's payload can carry, in the order the method
\* handles them (an absent optional path is left out).
ArgPaths(method) ==
    CASE method \in PlainMethods -> {<<>>}
      [] method \in {"put_guest_boot_source", "load_snapshot"} ->
            {<<p>> : p \in HostPaths} \cup {<<InitrdFile, p>> : p \in HostPaths}
      [] method = "patch_guest_drive_by_id" ->
            {<<>>} \cup {<<p>> : p \in HostPaths}
      [] method = "create_snapshot" ->
            {<<<<"/", "a", "mem">>, <<"/", "a", "snap">>>>}
      [] OTHER -> {<<p>> : p \in HostPaths}

\* A check_agent_exists! that never returns early.
check_agent_exists_skipped(self) == "Ok"

\* check_agent_exists!: the early return when no agent is connected.
check_agent_exists(self) ==
    IF self.agent THEN "Ok" ELSE "Err(Instance: No agent spawned)"

\* The place an absolute path names on a host with directories `dirs`:
\* ".." leads from an existing directory to its parent, and from the root
\* to the root; NoPath when it is met in a directory that does not exist.
\* A relative path is left as it is.
RECURSIVE Walk(_, _, _)
Walk(dirs_, done, rest) ==
    IF rest = <<>> THEN done
    ELSE IF Head(rest) # ".." THEN Walk(dirs_, Append(done, Head(rest)), Tail(rest))
    ELSE IF done \notin dirs_ THEN NoPath
    ELSE Walk(dirs_, IF Len(done) = 1 THEN done ELSE parent(done), Tail(rest))

Resolve(fs, path) ==
    IF is_absolute(path) THEN Walk(fs.dirs, <<"/">>, Tail(path)) ELSE path

\* A hard_link that replaces an existing destination.
CanLinkOverwrite(fs, origin, link) ==
    /\ Resolve(fs, origin) \in fs.files
    /\ Resolve(fs, link) # NoPath
    /\ Resolve(fs, link) \notin fs.dirs
    /\ parent(Resolve(fs, link)) \in fs.dirs

\* fs::hard_link(origin, link) on the host `fs` = [files, dirs]: the
\* origin is a file, nothing is at the link's place, and the directory
\* the link goes into exists.
CanLink(fs, origin, link) ==
    /\ Resolve(fs, origin) \in fs.files
    /\ Resolve(fs, link) # NoPath
    /\ Resolve(fs, link) \notin fs.files
    /\ Resolve(fs, link) \notin fs.dirs
    /\ parent(Resolve(fs, link)) \in fs.dirs

\* One operation a call makes on the host or on the socket, as the
\* effects log records it.
NoRequest == [endpoint |-> "none", paths |-> <<>>]

HardLink(origin, link, ok) ==
    [op |-> "hard_link", origin |-> origin, link |-> link,
     request |-> NoRequest, ok |-> ok]

SendRequest(request, ok) ==
    [op |-> "send_request", origin |-> NoPath, link |-> NoPath,
     request |-> request, ok |-> ok]

\* link_file on each path in turn, stopping at the first error (`?`):
\* the host afterwards, the jail-relative paths, the operations made and
\* the outcome.
RECURSIVE LinkAll(_, _, _, _, _, _)
LinkAll(strategy, rootfs, paths, fs, rel, done) ==
    IF paths = <<>>
    THEN [files |-> fs.files, rel |-> rel, effects |-> done, result |-> "Ok"]
    ELSE LET link == chroot_path(strategy, rootfs, Head(paths))
             tried == Append(done, HardLink(Head(paths), link,
                                            CanLink(fs, Head(paths), link)))
         IN  IF link = NoPath
             THEN [files |-> fs.files, rel |-> rel, effects |-> done,
                   result |-> "Err(Configuration)"]
             ELSE IF ~CanLink(fs, Head(paths), link)
             THEN [files |-> fs.files, rel |-> rel, effects |-> tried,
                   result |-> "Err(IO)"]
             ELSE IF strip_prefix(link, rootfs) = NoPath
             THEN [files |-> fs.files \cup {Resolve(fs, link)}, rel |-> rel,
                   effects |-> tried,
                   result |-> "Err(Instance: Fail to strip prefix)"]
             ELSE LinkAll(strategy, rootfs, Tail(paths),
                          [fs EXCEPT !.files = @ \cup {Resolve(fs, link)}],
                          Append(rel, strip_prefix(link, rootfs)), tried)

\* SocketAgent::event: send_request(encode), recv_response, decode.
\* "Err(IO)" is a failed write, "Err(Event)" a response that does not
\* decode; the request is on the channel unless the write failed.
EventOutcomes == {"Ok", "Err(IO)", "Err(Event)"}

Transmit(channel, request, outcome) ==
    IF outcome = "Err(IO)" THEN channel ELSE Append(channel, request)

\* A payload sent as the file names of its paths only.
RequestFileNames(method, paths) ==
    [endpoint |-> Endpoint(method),
     paths |-> [i \in 1..Len(paths) |-> file_name(paths[i])]]

Request(method, paths) == [endpoint |-> Endpoint(method), paths |-> paths]

\* agent.event(..) as the effects log records it.
Event(request, outcome) == SendRequest(request, outcome # "Err(IO)")

\* create_snapshot making its links before the exchange.
LinksThenEvent(event, links) == links \o <<event>>

\* create_snapshot: `let res = agent.event(..)` first, the perform_link
\* calls after it.
EventThenLinks(event, links) == <<event>> \o links

\* One call of a configuration / control method with the payload's paths.
Call(method, paths, outcome) ==
    LET jailed == chroot_strategy # "None" /\ jailer_workspace_dir # NoPath
        fs == [files |-> files, dirs |-> dirs]
    IN
    /\ phase = "live"
    /\ calls < MaxCalls
    /\ calls' = calls + 1
    /\ lastOp' = "call"
    /\ UNCHANGED <<instanceFields, fstack, dirs, pidfile, signalled, phase,
                   executed, failed, pushed, spawned, okStarts, agentVars, unitVars>>
    /\ called' = [method |-> method, paths |-> paths]
    /\ IF check_agent_exists(Self) # "Ok"
       THEN /\ result' = check_agent_exists(Self)
            /\ effects' = <<>>
            /\ UNCHANGED <<files, sent>>
       ELSE IF ~jailed \/ method \in PlainMethods
       THEN /\ result' = outcome
            /\ sent' = Transmit(sent, Request(method, paths), outcome)
            /\ effects' = <<Event(Request(method, paths), outcome)>>
            /\ UNCHANGED files
       ELSE IF method \in LinkMethods
       THEN LET linked == LinkAll(chroot_strategy, jailer_workspace_dir, paths,
                                  fs, <<>>, <<>>)
            IN  /\ files' = linked.files
                /\ IF linked.result = "Ok"
                   THEN /\ result' = outcome
                        /\ sent' = Transmit(sent, Request(method, linked.rel), outcome)
                        /\ effects' = Append(linked.effects,
                                             Event(Request(method, linked.rel), outcome))
                   ELSE /\ result' = linked.result
                        /\ sent' = sent
                        /\ effects' = linked.effects
       ELSE \* create_snapshot: chroot_path both, event, then perform_link both
            LET mem == chroot_path(chroot_strategy, jailer_workspace_dir, paths[1])
                snap == chroot_path(chroot_strategy, jailer_workspace_dir, paths[2])
                memOk == CanLink(fs, mem, paths[1])
                fs1 == [fs EXCEPT !.files = @ \cup {paths[1]}]
                snapOk == CanLink(fs1, snap, paths[2])
                event == Event(Request(method, <<mem, snap>>), outcome)
                linkMem == HardLink(mem, paths[1], memOk)
                linkSnap == HardLink(snap, paths[2], snapOk)
            IN  IF mem = NoPath \/ snap = NoPath
                THEN /\ result' = "Err(Configuration)"
                     /\ effects' = <<>>
                     /\ UNCHANGED <<files, sent>>
                ELSE /\ sent' = Transmit(sent, Request(method, <<mem, snap>>), outcome)
                     /\ IF ~memOk
                        THEN /\ result' = "Err(IO)"
                             /\ files' = files
                             /\ effects' = EventThenLinks(event, <<linkMem>>)
                        ELSE IF ~snapOk
                        THEN /\ result' = "Err(IO)"
                             /\ files' = fs1.files
                             /\ effects' = EventThenLinks(event, <<linkMem, linkSnap>>)
                        ELSE /\ result' = outcome
                             /\ files' = fs1.files \cup {paths[2]}
                             /\ effects' = EventThenLinks(event, <<linkMem, linkSnap>>)

call ==
    \E method \in Methods :
        \E paths \in ArgPaths(method), outcome \in EventOutcomes :
            Call(method, paths, outcome)

\* ------------------------------------------------------- a standalone FStack
StackActions ==
    {TerminateProcess(p) : p \in Pids}
    \cup {RemoveFile(DEFAULT_API_SOCK), RemoveFile(JailedSocket),
          RemoveDirectory(WorkspaceDir)}

StackHostFiles == HostFiles \cup {DEFAULT_API_SOCK, JailedSocket}
StackHostDirs == {<<"/">>, <<"/", "a">>, <<"/", "run">>, WorkspaceDir,
                  parent(JailedSocket)}

stackUnused == <<instanceFields, pidfile, sent, result, spawned, okStarts, calls,
                 called, effects, agentVars, unitVars>>

FStack_push_action ==
    /\ phase = "stack"
    /\ Len(fstack) < MaxPush
    /\ \E action \in StackActions :
         /\ fstack' = push_action(fstack, action)
         /\ pushed' = Append(pushed, action)
    /\ lastOp' = "push_action"
    /\ UNCHANGED <<stackUnused, files, dirs, signalled, executed, failed, phase>>

FStack_drop ==
    /\ phase = "stack"
    /\ phase' = "dropped"
    /\ lastOp' = "drop"
    /\ FStackDrop(fstack)
    /\ UNCHANGED <<stackUnused, pushed>>

FStack_cancel ==
    /\ phase = "stack"
    /\ phase' = "cancelled"
    /\ lastOp' = "cancel"
    /\ FStackDrop(cancelled(fstack))
    /\ UNCHANGED <<stackUnused, pushed>>

\* No SocketAgent::new in progress.
ConnectIdle ==
    /\ rt = "_rt_std" /\ connPc = "idle" /\ timeout = 0 /\ elapsed = 0
    /\ attempts = 0 /\ sleeps = 0 /\ lastKind = "none" /\ seen = {}
    /\ socketState = "absent"

\* No recv_response in progress.
RecvIdle ==
    /\ peer = <<>> /\ peerOpen = FALSE /\ readPos = 0 /\ buf = <<>>
    /\ vec = <<>> /\ chunks = <<>> /\ recvPc = "idle" /\ wouldBlocks = 0

AgentIdle == ConnectIdle /\ RecvIdle

\* No event in progress, nothing mapped, encoded or decoded.
NoEvent == [method |-> "none", payload |-> "none"]

EventIdle == evs = <<>> /\ wire = <<>>

CodecIdle ==
    /\ codecEvent = NoEvent /\ encoded = <<>> /\ response = <<>>
    /\ decoded = "none"

UnitIdle == linkPath = NoPath /\ EventIdle /\ CodecIdle

\* Nothing done yet.
Unobserved ==
    /\ called = [method |-> "none", paths |-> <<>>]
    /\ effects = <<>>
    /\ sent = <<>>
    /\ lastOp = "new"
    /\ result = "Ok"
    /\ executed = <<>>
    /\ failed = {}
    /\ pushed = <<>>
    /\ spawned = <<>>
    /\ okStarts = 0
    /\ calls = 0

Observers == AgentIdle /\ Unobserved /\ UnitIdle

InitFStack ==
    /\ jailer_workspace_dir = NoPath
    /\ socket_on_host = DEFAULT_API_SOCK
    /\ chroot_strategy = "None"
    /\ remove_jailer_workspace_dir = "None"
    /\ child = NoPid
    /\ agent = FALSE
    /\ jailer_pid = NoPid
    /\ firecracker_pid = NoPid
    /\ fstack = <<>>
    /\ files = StackHostFiles
    /\ dirs = StackHostDirs
    /\ pidfile = <<>>
    /\ signalled = {}
    /\ phase = "stack"
    /\ Observers

NextFStack == FStack_push_action \/ FStack_drop \/ FStack_cancel

SpecFStack == InitFStack /\ [][NextFStack]_vars

\* ------------------------------------------------- the Instance lifecycle
Init ==
    /\ NewInstance
    /\ FreshHost
    /\ phase = "live"
    /\ Observers

Next == start_vmm \/ drop_instance

Spec == Init /\ [][Next]_vars

\* --------------------------------------- calls on an Instance after start
\* The caller starts the Instance at most once, before its first call; the
\* start is tried with the first pid, a socket that is served or never
\* appears, and a pid file that is sound or missing.  The workspace-removal
\* flag, which no call reads, is left unset.
start_once ==
    /\ spawned = <<>> /\ calls = 0 /\ lastOp = "new"
    /\ \E sock \in {"listening", "absent"},
          text \in {NoFile, <<"2">>} :
          /\ sock # "listening" => text = NoFile
          /\ start_vmm_spawned(1, sock, text)

NextCalls == start_once \/ call

InitCalls == Init /\ remove_jailer_workspace_dir = "None"

SpecCalls == InitCalls /\ [][NextCalls]_vars

\* ------------------------------------------- create_snapshot on a jail
\* The host between calls: a file comes to be at a place under the jail
\* root that create_snapshot maps one of its paths to (the origin its
\* perform_link reads).
snapshot_file_appears ==
    /\ phase = "live" /\ agent
    /\ jailer_workspace_dir # NoPath /\ chroot_strategy # "None"
    /\ \E paths \in ArgPaths("create_snapshot"), i \in 1..2 :
          LET origin == chroot_path(chroot_strategy, jailer_workspace_dir, paths[i])
          IN  /\ origin # NoPath
              /\ origin \notin files
              /\ files' = files \cup {origin}
    /\ UNCHANGED <<instanceFields, fstack, dirs, pidfile, signalled, phase,
                   executed, failed, pushed, spawned, okStarts, agentVars,
                   unitVars, calls, lastOp, called, result, effects, sent>>

create_snapshot ==
    \E paths \in ArgPaths("create_snapshot"), outcome \in EventOutcomes :
        Call("create_snapshot", paths, outcome)

NextSnapshot == start_once \/ snapshot_file_appears \/ create_snapshot

SpecSnapshot == InitCalls /\ [][NextSnapshot]_vars

\* ------------------------------------------------------- SocketAgent::new
\* No Instance is involved: a bare one, never started, on a fresh host.
NoInstance ==
    /\ jailer_workspace_dir = NoPath
    /\ socket_on_host = DEFAULT_API_SOCK
    /\ chroot_strategy = "None"
    /\ remove_jailer_workspace_dir = "None"
    /\ child = NoPid
    /\ agent = FALSE
    /\ jailer_pid = NoPid
    /\ firecracker_pid = NoPid
    /\ fstack = <<>>
    /\ FreshHost
    /\ Unobserved

instanceVars == <<instanceFields, fstack, hostVars, sent, phase, lastOp,
                  executed, failed, pushed, spawned, okStarts, calls, called,
                  effects>>

\* The runtime features: blocking, and the two cooperative ones.
Runtimes == {"_rt_std", "_rt_tokio", "_rt_async_std"}

SleepMs == 100
StartTimeoutMs == 3000

\* Time is counted in milliseconds.  A connect attempt, a poll of the
\* socket path, and the part of a sleep beyond its duration take no time
\* or JitterMs; the clock saturates at ClockMax.
JitterMs == 50

Delays == {0, JitterMs}

Timeouts == {0, SleepMs + JitterMs, StartTimeoutMs}

ClockMax == StartTimeoutMs + 2 * SleepMs

Tick(el, d) == IF el + d > ClockMax THEN ClockMax ELSE el + d

\* The counters of attempts and sleeps stop at the number of sleeps that
\* fit in ClockMax.
Count(n) == IF n < ClockMax \div SleepMs THEN n + 1 ELSE n

TimeoutError == "Err(Agent: Connection timed out)"

\* The io::ErrorKind UnixStream::connect returns for a socket path.
ErrorKind(s) ==
    CASE s = "listening" -> "Ok"
      [] s = "absent" -> "NotFound"
      [] s = "refused" -> "ConnectionRefused"
      [] s = "denied" -> "PermissionDenied"

\* A std::thread::sleep that returns at once.
thread_sleep_no_wait(el, over) == el

\* std::thread::sleep(Duration::from_millis(100)): at least 100 ms pass.
thread_sleep(el, over) == Tick(el, SleepMs + over)

\* A match on the connect result that retries on every error.
BlockingMatchRetryAll(kind, el, to) ==
    IF kind = "Ok" THEN [pc |-> "returned", result |-> "Ok"]
    ELSE IF el >= to THEN [pc |-> "returned", result |-> TimeoutError]
    ELSE [pc |-> "sleep", result |-> "pending"]

\* A match that looks at the deadline before the connect result.
BlockingMatchDeadlineFirst(kind, el, to) ==
    IF el >= to THEN [pc |-> "returned", result |-> TimeoutError]
    ELSE IF kind = "Ok" THEN [pc |-> "returned", result |-> "Ok"]
    ELSE IF kind \in {"NotFound", "ConnectionRefused"}
    THEN [pc |-> "sleep", result |-> "pending"]
    ELSE [pc |-> "returned", result |-> "Err(IO: connect)"]

\* Blocking new: the match on the connect result, el being
\* start.elapsed() when the retry arm reads it.
BlockingMatch(kind, el, to) ==
    CASE kind = "Ok" -> [pc |-> "returned", result |-> "Ok"]
      [] kind \in {"NotFound", "ConnectionRefused"} ->
            IF el >= to
            THEN [pc |-> "returned", result |-> TimeoutError]
            ELSE [pc |-> "sleep", result |-> "pending"]
      [] OTHER -> [pc |-> "returned", result |-> "Err(IO: connect)"]

\* Blocking new: one UnixStream::connect and the match on its result.
std_connect ==
    /\ phase = "agent" /\ rt = "_rt_std" /\ connPc = "connect"
    /\ \E d \in Delays :
         LET now == Tick(elapsed, d)
             next == BlockingMatch(ErrorKind(socketState), now, timeout)
         IN  /\ elapsed' = now
             /\ connPc' = next.pc
             /\ result' = next.result
    /\ attempts' = Count(attempts)
    /\ lastKind' = ErrorKind(socketState)
    /\ seen' = seen \cup {socketState}
    /\ UNCHANGED <<rt, timeout, sleeps, socketState, instanceVars, unitVars, recvVars>>

\* Blocking new: the sleep before the next attempt.
std_sleep ==
    /\ phase = "agent" /\ rt = "_rt_std" /\ connPc = "sleep"
    /\ \E over \in Delays : elapsed' = thread_sleep(elapsed, over)
    /\ sleeps' = Count(sleeps)
    /\ connPc' = "connect"
    /\ UNCHANGED <<rt, timeout, attempts, lastKind, seen, socketState, result,
                   instanceVars, unitVars, recvVars>>

\* wait_future, `while !fs::exists(&socket_path).is_ok_and(|x| x) {}`: the
\* loop has no await, so a poll of it either completes or is still running.
WaitFuture(s) == IF s # "absent" THEN "Ready" ELSE "Running"

\* timeout(timeout, wait_future): a poll polls the wrapped future first and
\* looks at the deadline only when that poll has returned Pending.
TimeoutPoll(inner, el, to) ==
    CASE inner = "Ready" -> "Ok"
      [] inner = "Pending" /\ el >= to -> "Elapsed"
      [] OTHER -> inner

\* Cooperative new: one pass of the wait loop inside the timeout's poll.
coop_wait ==
    /\ phase = "agent" /\ rt # "_rt_std" /\ connPc = "wait"
    /\ \E d \in Delays :
         LET now == Tick(elapsed, d)
             polled == TimeoutPoll(WaitFuture(socketState), now, timeout)
         IN  /\ elapsed' = now
             /\ connPc' = CASE polled = "Ok" -> "connect"
                            [] polled = "Elapsed" -> "returned"
                            [] OTHER -> "wait"
             /\ result' = IF polled = "Elapsed" THEN TimeoutError ELSE "pending"
    /\ seen' = seen \cup {socketState}
    /\ UNCHANGED <<rt, timeout, attempts, sleeps, lastKind, socketState,
                   instanceVars, unitVars, recvVars>>

\* Cooperative new: the single `UnixStream::connect(socket_path).await?`.
coop_connect ==
    /\ phase = "agent" /\ rt # "_rt_std" /\ connPc = "connect"
    /\ attempts' = attempts + 1
    /\ lastKind' = ErrorKind(socketState)
    /\ seen' = seen \cup {socketState}
    /\ connPc' = "returned"
    /\ result' = IF ErrorKind(socketState) = "Ok" THEN "Ok" ELSE "Err(IO: connect)"
    /\ UNCHANGED <<rt, timeout, elapsed, sleeps, socketState, instanceVars, unitVars, recvVars>>

\* The spawned program, or anyone else, changes what is at the socket path.
socket_changes ==
    /\ phase = "agent" /\ connPc # "returned"
    /\ socketState' \in SockStates \ {socketState}
    /\ UNCHANGED <<rt, connPc, timeout, elapsed, attempts, sleeps, lastKind,
                   seen, result, instanceVars, unitVars, recvVars>>

InitConnect ==
    /\ NoInstance
    /\ UnitIdle
    /\ phase = "agent"
    /\ RecvIdle
    /\ rt \in Runtimes
    /\ timeout \in Timeouts
    /\ socketState \in SockStates
    /\ connPc = IF rt = "_rt_std" THEN "connect" ELSE "wait"
    /\ elapsed = 0 /\ attempts = 0 /\ sleeps = 0
    /\ lastKind = "none" /\ seen = {}

SocketAgentNew == std_connect \/ std_sleep \/ coop_wait \/ coop_connect

NextConnect == SocketAgentNew \/ socket_changes

SpecConnect == InitConnect /\ [][NextConnect]_vars

\* The thread (or task) running new keeps running; nothing is assumed of
\* the socket.
SpecConnectLive == SpecConnect /\ WF_vars(SocketAgentNew)

\* ----------------------------------------------- SocketAgent::recv_response
\* The three runtime features have the same loop; a byte is a number
\* 0..255.
MAX_BUFFER_SIZE == 64

MaxMsgLen == 129
MaxWouldBlock == 1

\* "Hello, world!", the 13 bytes the echo tests send.
Hello == <<72, 101, 108, 108, 111, 44, 32, 119, 111, 114, 108, 100, 33>>

\* A message of n bytes, none of them zero, no two neighbours equal.
Pattern(n) == [i \in 1..n |-> (i % 251) + 1]

Messages == {Hello} \cup {Pattern(n) : n \in 0..MaxMsgLen}

\* `let mut buf = [0u8; MAX_BUFFER_SIZE]`
ZeroBuf == [i \in 1..MAX_BUFFER_SIZE |-> 0]

\* A read that stores the bytes at the end of the buffer.
read_into_tail(b, data) == SubSeq(b, 1, Len(b) - Len(data)) \o data

\* stream.read(&mut buf) returning Ok(Len(data)): the bytes are stored at
\* the start of the buffer, the rest of it is left as it was.
read_into(b, data) == data \o SubSeq(b, Len(data) + 1, Len(b))

\* vec.extend_from_slice(&mut buf): the whole buffer is appended.
extend_from_slice(v, b) == v \o b

\* A test for the last chunk that never says so.
short_read_never(n) == FALSE

\* `if n < MAX_BUFFER_SIZE { break; }`: the chunk is taken for the last.
short_read(n) == n < MAX_BUFFER_SIZE

\* read returns Ok(n), n >= 1 bytes of what the peer wrote.
recv_read ==
    /\ phase = "recv" /\ recvPc = "read"
    /\ \E n \in 1..MAX_BUFFER_SIZE :
         /\ readPos + n <= Len(peer)
         /\ LET filled == read_into(buf, SubSeq(peer, readPos + 1, readPos + n))
            IN  /\ buf' = filled
                /\ vec' = extend_from_slice(vec, filled)
         /\ readPos' = readPos + n
         /\ chunks' = Append(chunks, n)
         /\ recvPc' = IF short_read(n) THEN "returned" ELSE "read"
    /\ result' = "Ok"
    /\ UNCHANGED <<peer, peerOpen, wouldBlocks, instanceVars, unitVars, connectVars>>

\* read returns Ok(0): the peer has closed and everything was read.
recv_eof ==
    /\ phase = "recv" /\ recvPc = "read"
    /\ readPos = Len(peer) /\ ~peerOpen
    /\ chunks' = Append(chunks, 0)
    /\ recvPc' = "returned"
    /\ result' = "Ok"
    /\ UNCHANGED <<peer, peerOpen, readPos, buf, vec, wouldBlocks,
                   instanceVars, unitVars, connectVars>>

\* read returns Err(WouldBlock): nothing has arrived yet; `continue`.
recv_would_block ==
    /\ phase = "recv" /\ recvPc = "read"
    /\ readPos < Len(peer) \/ peerOpen
    /\ wouldBlocks < MaxWouldBlock
    /\ wouldBlocks' = wouldBlocks + 1
    /\ UNCHANGED <<peer, peerOpen, readPos, buf, vec, chunks, recvPc, result,
                   instanceVars, unitVars, connectVars>>

\* read returns another error: Err(Error::Agent("Bad read from socket")),
\* and vec is dropped.
recv_bad_read ==
    /\ phase = "recv" /\ recvPc = "read"
    /\ recvPc' = "returned"
    /\ result' = "Err(Agent: Bad read from socket)"
    /\ vec' = <<>>
    /\ UNCHANGED <<peer, peerOpen, readPos, buf, chunks, wouldBlocks,
                   instanceVars, unitVars, connectVars>>

InitRecv ==
    /\ NoInstance
    /\ UnitIdle
    /\ phase = "recv"
    /\ ConnectIdle
    /\ peer \in Messages
    /\ peerOpen \in BOOLEAN
    /\ readPos = 0
    /\ buf = ZeroBuf
    /\ vec = <<>>
    /\ chunks = <<>>
    /\ recvPc = "read"
    /\ wouldBlocks = 0

NextRecv == recv_read \/ recv_eof \/ recv_would_block \/ recv_bad_read

SpecRecv == InitRecv /\ [][NextRecv]_vars

\* A read returns what has arrived, or the end of the stream, when there
\* is either; nothing is assumed of reads that fail.
SpecRecvLive == SpecRecv /\ WF_vars(recv_read \/ recv_eof)

\* ------------------------------------------- successive calls of event
\* The responses of successive calls travel over the one stream.  The
\* response to the k-th call is n bytes of value k, so that a byte tells
\* which response it belongs to (0 is the padding of a fresh buf).
MaxResponseLen == 3

ResponseTo(k, n) == [i \in 1..n |-> k]

\* event called again after it returned: send_request, on which a peer
\* that is still there writes its response to the stream after whatever
\* it wrote before, then recv_response with a fresh buf and vec, reading
\* on from where the earlier reads stopped.
event_again ==
    /\ phase = "recv" /\ recvPc = "returned"
    /\ calls + 1 < MaxCalls
    /\ calls' = calls + 1
    /\ \E n \in 1..MaxResponseLen :
          peer' = IF peerOpen THEN peer \o ResponseTo(calls + 2, n) ELSE peer
    /\ buf' = ZeroBuf
    /\ vec' = <<>>
    /\ chunks' = <<>>
    /\ wouldBlocks' = 0
    /\ recvPc' = "read"
    /\ result' = "Ok"
    /\ UNCHANGED <<instanceFields, fstack, hostVars, sent, phase, lastOp,
                   executed, failed, pushed, spawned, okStarts, called,
                   effects, connectVars, unitVars, peerOpen, readPos>>

\* The first call has written its request and starts to read.
InitChannel ==
    /\ NoInstance
    /\ UnitIdle
    /\ phase = "recv"
    /\ ConnectIdle
    /\ peer \in {ResponseTo(1, n) : n \in 1..MaxResponseLen}
    /\ peerOpen \in BOOLEAN
    /\ readPos = 0
    /\ buf = ZeroBuf
    /\ vec = <<>>
    /\ chunks = <<>>
    /\ recvPc = "read"
    /\ wouldBlocks = 0

NextChannel == NextRecv \/ event_again

SpecChannel == InitChannel /\ [][NextChannel]_vars

\* ------------------------------------------------- ChrootStrategy on its own
\* jailed_link and link_file of a jailed, unstarted Instance, for several
\* jail roots and host paths, on a host where the directories of the host
\* files are, or are not, mirrored under the root.
ExamplePath == <<"/", "a", "b", "c.img">>

Roots == {<<"/", "root">>, WorkspaceDir, <<"/">>}

ChrootFiles == {ExamplePath, <<"/", "a", "c.img">>, <<"/", "b", "c.img">>,
                <<"/", "a", "d.img">>, <<"/", "e.img">>}

\* Host paths handed to chroot_path: the files, paths through, ending in
\* and starting with "..", the root, relative paths and the empty path.
MappedPaths ==
    ChrootFiles \cup {<<"/", "a", "..", "c.img">>, <<"/", "a", "..">>, <<"/">>,
                      <<"c.img">>, <<"a", "c.img">>, <<>>,
                      <<"/", "..", "e.img">>}

Ancestors(path) == {SubSeq(path, 1, k) : k \in 1..Len(path)}

ChrootDirs(root, mirrored) ==
    {<<"/">>, <<"/", "a">>, <<"/", "b">>, <<"/", "a", "b">>}
    \cup Ancestors(root)
    \cup (IF mirrored
          THEN {root \o <<"a">>, root \o <<"b">>, root \o <<"a", "b">>}
          ELSE {})

chrootUnused == <<instanceFields, fstack, dirs, pidfile, signalled, sent, phase,
                  executed, failed, pushed, spawned, okStarts, agentVars,
                  eventVars, codecVars>>

\* Instance::jailed_link: chroot_path with the Instance's strategy and
\* workspace.
jailed_link(path) ==
    /\ phase = "chroot" /\ calls < MaxCalls
    /\ calls' = calls + 1
    /\ lastOp' = "jailed_link"
    /\ called' = [method |-> "jailed_link", paths |-> <<path>>]
    /\ linkPath' = chroot_path(chroot_strategy, jailer_workspace_dir, path)
    /\ result' = IF linkPath' = NoPath THEN "Err(Configuration)" ELSE "Ok"
    /\ UNCHANGED <<chrootUnused, files, effects>>

\* ChrootStrategy::link_file: chroot_path, then perform_link.
link_file(path) ==
    LET link == chroot_path(chroot_strategy, jailer_workspace_dir, path)
        ok == CanLink([files |-> files, dirs |-> dirs], path, link)
    IN  /\ phase = "chroot" /\ calls < MaxCalls
        /\ calls' = calls + 1
        /\ lastOp' = "link_file"
        /\ called' = [method |-> "link_file", paths |-> <<path>>]
        /\ linkPath' = link
        /\ IF link = NoPath
           THEN /\ result' = "Err(Configuration)"
                /\ UNCHANGED <<files, effects>>
           ELSE /\ effects' = Append(effects, HardLink(path, link, ok))
                /\ files' = IF ok
                            THEN files \cup {Resolve([files |-> files,
                                                      dirs |-> dirs], link)}
                            ELSE files
                /\ result' = IF ok THEN "Ok" ELSE "Err(IO)"
        /\ UNCHANGED chrootUnused

InitChroot ==
    /\ jailer_workspace_dir \in Roots
    /\ chroot_strategy \in {"NaiveLinkStrategy", "FullLinkStrategy"}
    /\ socket_on_host = chroot_path("FullLinkStrategy", jailer_workspace_dir,
                                    DEFAULT_API_SOCK)
    /\ remove_jailer_workspace_dir = "None"
    /\ child = NoPid
    /\ agent = FALSE
    /\ jailer_pid = NoPid
    /\ firecracker_pid = NoPid
    /\ fstack = <<>>
    /\ files = ChrootFiles
    /\ \E mirrored \in BOOLEAN : dirs = ChrootDirs(jailer_workspace_dir, mirrored)
    /\ pidfile = <<>>
    /\ signalled = {}
    /\ phase = "chroot"
    /\ AgentIdle
    /\ Unobserved
    /\ UnitIdle

NextChroot ==
    \/ \E path \in MappedPaths : jailed_link(path)
    \/ \E path \in MappedPaths : link_file(path)

SpecChroot == InitChroot /\ [][NextChroot]_vars

\* ------------------------------------------------------- SocketAgent::event
\* Calls on a connected agent, one step at a time: encode, send_request,
\* recv_response, decode.  A call is [method, pc, steps, result], steps
\* being the operations it made with their outcomes.
EventMethods == {"describe_instance", "patch_vm", "create_sync_action"}

EventSteps == <<"encode", "send_request", "recv_response", "decode">>

StepOutcomes(op) ==
    CASE op = "encode" -> {"Ok", "Err(Event: serde_json encode)"}
      [] op = "send_request" -> {"Ok", "Err(IO)"}
      [] op = "recv_response" -> {"Ok", "Err(Agent: Bad read from socket)"}
      [] op = "decode" -> {"Ok", "Err(Event)", "panic"}

Step(op, outcome) == [op |-> op, outcome |-> outcome]

NewCall(method) ==
    [method |-> method, pc |-> "encode", steps |-> <<>>, result |-> "pending"]

\* A receiver that any number of callers may use at once.
shared_borrow(es) == TRUE

\* `&mut self`: the agent is borrowed exclusively for the length of a call,
\* so a call starts only when every earlier one has returned.
exclusive_borrow(es) == \A i \in DOMAIN es : es[i].pc = "returned"

\* A `?` that goes on after an Err.
QuestionMarkIgnored(next, outcome) == next

\* The `?` operator: go on when Ok, return the error otherwise.
QuestionMark(next, outcome) == IF outcome = "Ok" THEN next ELSE "returned"

eventUnused == <<instanceFields, fstack, hostVars, phase, executed, failed,
                 pushed, spawned, okStarts, called, effects, agentVars,
                 linkPath, codecVars>>

\* The caller issues a call of `method`.
event_call(method) ==
    /\ phase = "event" /\ agent
    /\ Len(evs) < MaxCalls
    /\ exclusive_borrow(evs)
    /\ evs' = Append(evs, NewCall(method))
    /\ calls' = calls + 1
    /\ lastOp' = "event"
    /\ UNCHANGED <<eventUnused, wire, sent, result>>

\* `event.encode()?`
event_encode(i) ==
    /\ phase = "event" /\ evs[i].pc = "encode"
    /\ \E o \in StepOutcomes("encode") :
         /\ evs' = [evs EXCEPT ![i].steps = Append(@, Step("encode", o)),
                               ![i].pc = QuestionMark("send_request", o),
                               ![i].result = IF o = "Ok" THEN @ ELSE o]
         /\ result' = IF o = "Ok" THEN result ELSE o
    /\ UNCHANGED <<eventUnused, wire, sent, calls, lastOp>>

\* `self.send_request(..)?`: write_all and flush; the request is on the
\* stream when both succeeded.
event_send(i) ==
    /\ phase = "event" /\ evs[i].pc = "send_request"
    /\ \E o \in StepOutcomes("send_request") :
         /\ evs' = [evs EXCEPT ![i].steps = Append(@, Step("send_request", o)),
                               ![i].pc = QuestionMark("recv_response", o),
                               ![i].result = IF o = "Ok" THEN @ ELSE o]
         /\ wire' = IF o = "Ok" THEN Append(wire, i) ELSE wire
         /\ sent' = IF o = "Ok" THEN Append(sent, Request(evs[i].method, <<>>))
                    ELSE sent
         /\ result' = IF o = "Ok" THEN result ELSE o
    /\ UNCHANGED <<eventUnused, calls, lastOp>>

\* `let response = self.recv_response()?`
event_recv(i) ==
    /\ phase = "event" /\ evs[i].pc = "recv_response"
    /\ \E o \in StepOutcomes("recv_response") :
         /\ evs' = [evs EXCEPT ![i].steps = Append(@, Step("recv_response", o)),
                               ![i].pc = QuestionMark("decode", o),
                               ![i].result = IF o = "Ok" THEN @ ELSE o]
         /\ result' = IF o = "Ok" THEN result ELSE o
    /\ UNCHANGED <<eventUnused, wire, sent, calls, lastOp>>

\* `E::decode(&response)`, whose value is the call's.
event_decode(i) ==
    /\ phase = "event" /\ evs[i].pc = "decode"
    /\ \E o \in StepOutcomes("decode") :
         /\ evs' = [evs EXCEPT ![i].steps = Append(@, Step("decode", o)),
                               ![i].pc = "returned",
                               ![i].result = o]
         /\ result' = o
    /\ UNCHANGED <<eventUnused, wire, sent, calls, lastOp>>

\* A bare Instance whose start_vmm has connected the agent.
InitEvent ==
    /\ jailer_workspace_dir = NoPath
    /\ socket_on_host = DEFAULT_API_SOCK
    /\ chroot_strategy = "None"
    /\ remove_jailer_workspace_dir = "None"
    /\ child = 1
    /\ agent = TRUE
    /\ jailer_pid = NoPid
    /\ firecracker_pid = 1
    /\ fstack = <<RemoveFile(DEFAULT_API_SOCK), TerminateProcess(1)>>
    /\ files = HostFiles \cup {DEFAULT_API_SOCK}
    /\ dirs = {<<"/">>, <<"/", "a">>, <<"/", "run">>}
    /\ pidfile = <<>>
    /\ signalled = {}
    /\ phase = "event"
    /\ AgentIdle
    /\ Unobserved
    /\ UnitIdle

NextEvent ==
    \/ \E method \in EventMethods : event_call(method)
    \/ \E i \in DOMAIN evs : event_encode(i)
    \/ \E i \in DOMAIN evs : event_send(i)
    \/ \E i \in DOMAIN evs : event_recv(i)
    \/ \E i \in DOMAIN evs : event_decode(i)

SpecEvent == InitEvent /\ [][NextEvent]_vars

\* ------------------------------------------------------------------ the codec
\* Bytes are written as their ASCII characters, a text as the sequence of
\* its characters.
HTTP_VERSION == <<"H", "T", "T", "P", "/", "1", ".", "0">>

\* A Display that prints "0" for every number.
ToDecimalZero(n) == <<"0">>

\* Display of an unsigned integer: its decimal digits, no leading zero.
RECURSIVE ToDecimal(_)
ToDecimal(n) ==
    LET digit == <<"0", "1", "2", "3", "4", "5", "6", "7", "8", "9">>
    IN  IF n < 10 THEN <<digit[n + 1]>>
        ELSE Append(ToDecimal(n \div 10), digit[(n % 10) + 1])

\* Payloads: the empty marker, and BalloonStatsUpdate with its one field.
Empty == [type |-> "Empty", stats_polling_interval_s |-> 0]

BalloonStatsUpdate(n) ==
    [type |-> "BalloonStatsUpdate", stats_polling_interval_s |-> n]

\* serde_json::to_vec(&payload) for a BalloonStatsUpdate: the one field,
\* an i64 written in decimal.
to_vec(payload) ==
    LET n == payload.stats_polling_interval_s
        number == IF n < 0 THEN <<"-">> \o ToDecimal(0 - n) ELSE ToDecimal(n)
        field == <<"s", "t", "a", "t", "s", "_", "p", "o", "l", "l", "i",
                   "n", "g", "_", "i", "n", "t", "e", "r", "v", "a", "l",
                   "_", "s">>
    IN  <<"{", "\"">> \o field \o <<"\"", ":">> \o number \o <<"}">>

\* The events of impl_event_traits! that are encoded here.
GetFirecrackerVersion ==
    [name |-> "GetFirecrackerVersion", method |-> <<"G", "E", "T">>,
     path |-> <<"/", "v", "e", "r", "s", "i", "o", "n">>, payload |-> Empty]

DescribeInstance ==
    [name |-> "DescribeInstance", method |-> <<"G", "E", "T">>,
     path |-> <<"/">>, payload |-> Empty]

PatchBalloonStatsInterval(n) ==
    [name |-> "PatchBalloonStatsInterval",
     method |-> <<"P", "A", "T", "C", "H">>,
     path |-> <<"/", "b", "a", "l", "l", "o", "o", "n", "/", "s", "t", "a",
               "t", "i", "s", "t", "i", "c", "s">>,
     payload |-> BalloonStatsUpdate(n)]

\* The interval is tried with one to four digits, and negative.
Events ==
    {GetFirecrackerVersion, DescribeInstance}
    \cup {PatchBalloonStatsInterval(n) : n \in {0, 7, 12, 600, 3600, -3}}

\* RequestTrait::encode; it returns Ok for every payload modelled.
encode(self) ==
    LET request == self.method \o <<" ">> \o self.path \o <<" ">>
                   \o HTTP_VERSION \o <<"\r", "\n">>
        payload == to_vec(self.payload)
        length == <<"C", "o", "n", "t", "e", "n", "t", "-", "L", "e", "n",
                    "g", "t", "h", ":", " ">>
    IN  IF self.payload.type = Empty.type
        THEN request \o <<"\r", "\n">>
        ELSE request \o length \o ToDecimal(Len(payload))
             \o <<"\r", "\n">> \o <<"\r", "\n">> \o payload

\* ---- httparse::Response::parse, as called by decode
\* What a header name may hold: letters, digits and some punctuation (the
\* grave accent is written by name).
HeaderNameTokens ==
    {"A", "B", "C", "D", "E", "F", "G", "H", "I", "J", "K", "L", "M", "N",
     "O", "P", "Q", "R", "S", "T", "U", "V", "W", "X", "Y", "Z", "a", "b",
     "c", "d", "e", "f", "g", "h", "i", "j", "k", "l", "m", "n", "o", "p",
     "q", "r", "s", "t", "u", "v", "w", "x", "y", "z", "0", "1", "2", "3",
     "4", "5", "6", "7", "8", "9", "!", "#", "$", "%", "&", "'", "*", "+",
     "-", ".", "^", "_", "|", "~", "GRAVE"}

\* Visible characters, space and tab: what a header value or a reason
\* phrase may hold. CR, LF and the zero byte are outside.
HeaderValueTokens ==
    HeaderNameTokens
    \cup {"\"", "(", ")", ",", "/", ":", ";", "<", "=", ">", "?", "@", "[",
           "\\", "]", "{", "}", " ", "\t"}

\* str::to_lowercase on ASCII.
to_lowercase(text) ==
    LET upper == <<"A", "B", "C", "D", "E", "F", "G", "H", "I", "J", "K",
                   "L", "M", "N", "O", "P", "Q", "R", "S", "T", "U", "V",
                   "W", "X", "Y", "Z">>
        lower == <<"a", "b", "c", "d", "e", "f", "g", "h", "i", "j", "k",
                   "l", "m", "n", "o", "p", "q", "r", "s", "t", "u", "v",
                   "w", "x", "y", "z">>
    IN  [i \in DOMAIN text |->
            IF \E k \in DOMAIN upper : upper[k] = text[i]
            THEN lower[CHOOSE k \in DOMAIN upper : upper[k] = text[i]]
            ELSE text[i]]

\* The byte at a position, or EOF past the end of the buffer.
EOF == "EOF"

At(b, i) == IF i \in 1..Len(b) THEN b[i] ELSE EOF

\* The first position from i on whose byte is outside the set; EOF is
\* outside every set.
FirstNotIn(b, i, set) ==
    CHOOSE j \in i..(Len(b) + 1) :
        /\ At(b, j) \notin set
        /\ \A k \in i..(j - 1) : At(b, k) \in set

\* The result of a parsing step: "Complete" with the position of the next
\* unread byte, "Partial", or the kind of an error.
Status(st, at) == [st |-> st, at |-> at]

\* A line end at position i: CR LF or a bare LF. An error of the given
\* kind when CR is followed by another byte, or when the byte is no line
\* end at all.
newline(b, i, kind) ==
    CASE At(b, i) = EOF -> Status("Partial", 0)
      [] At(b, i) = "\n" -> Status("Complete", i + 1)
      [] At(b, i) = "\r" /\ At(b, i + 1) = EOF -> Status("Partial", 0)
      [] At(b, i) = "\r" /\ At(b, i + 1) = "\n" -> Status("Complete", i + 2)
      [] OTHER -> Status(kind, 0)

RECURSIVE skip_empty_lines(_, _)
skip_empty_lines(b, i) ==
    IF At(b, i) \in {"\r", "\n"}
    THEN LET nl == newline(b, i, "NewLine")
         IN  IF nl.st = "Complete" THEN skip_empty_lines(b, nl.at) ELSE nl
    ELSE IF At(b, i) = EOF THEN Status("Partial", 0) ELSE Status("Complete", i)

\* Eight bytes are compared at once; with fewer left, they are compared
\* with "HTTP/1." one by one until the buffer ends.
parse_version(b, i) ==
    LET HTTP_1_1 == <<"H", "T", "T", "P", "/", "1", ".", "1">>
        n == Len(HTTP_1_1)
        rest == SubSeq(b, i, Len(b))
    IN  IF i + n - 1 <= Len(b)
        THEN IF SubSeq(b, i, i + n - 1) \in {HTTP_VERSION, HTTP_1_1}
             THEN Status("Complete", i + n)
             ELSE Status("Version", 0)
        ELSE IF rest = SubSeq(HTTP_1_1, 1, Len(rest))
             THEN Status("Partial", 0)
             ELSE Status("Version", 0)

\* Three digits.
parse_code(b, i) ==
    LET stop == FirstNotIn(b, i, Digits)
    IN  IF stop >= i + 3 THEN Status("Complete", i + 3)
        ELSE IF At(b, stop) = EOF THEN Status("Partial", 0)
        ELSE Status("Status", 0)

\* What follows the status code: a space and a reason phrase up to the
\* line end, or the line end at once.
reason(b, i) ==
    CASE At(b, i) = EOF -> Status("Partial", 0)
      [] At(b, i) = " " ->
            newline(b, FirstNotIn(b, i + 1, HeaderValueTokens), "Status")
      [] At(b, i) \in {"\r", "\n"} -> newline(b, i, "Status")
      [] OTHER -> Status("Status", 0)

\* [httparse::EMPTY_HEADER; 64]
MaxHeaders == 64

\* The headers from position i on, appended to those already parsed. A
\* value loses the spaces and tabs at its end.
RECURSIVE parse_headers(_, _, _)
parse_headers(b, i, headers) ==
    LET colon == FirstNotIn(b, i, HeaderNameTokens)
        start == FirstNotIn(b, colon + 1, {" ", "\t"})
        stop == FirstNotIn(b, start, HeaderValueTokens)
        nl == newline(b, stop, "HeaderValue")
        last == IF \E k \in start..(stop - 1) : b[k] \notin {" ", "\t"}
                THEN CHOOSE k \in start..(stop - 1) :
                        /\ b[k] \notin {" ", "\t"}
                        /\ \A l \in (k + 1)..(stop - 1) : b[l] \in {" ", "\t"}
                ELSE start - 1
        header == [name |-> SubSeq(b, i, colon - 1),
                   value |-> SubSeq(b, start, last)]
        so_far == [headers |-> headers]
    IN  CASE At(b, i) = EOF -> Status("Partial", 0) @@ so_far
          [] At(b, i) \in {"\r", "\n"} -> newline(b, i, "NewLine") @@ so_far
          [] At(b, i) \notin HeaderNameTokens \cup {EOF, "\r", "\n"} ->
                Status("HeaderName", 0) @@ so_far
          [] OTHER ->
                IF Len(headers) = MaxHeaders
                THEN Status("TooManyHeaders", 0) @@ so_far
                ELSE IF At(b, colon) = EOF
                THEN Status("Partial", 0) @@ so_far
                ELSE IF At(b, colon) # ":"
                THEN Status("HeaderName", 0) @@ so_far
                ELSE IF nl.st # "Complete"
                THEN nl @@ so_far
                ELSE parse_headers(b, nl.at, Append(headers, header))

\* Response::parse: the status line, then the headers up to the blank
\* line. Complete carries the position of the first body byte.
parse(b) ==
    LET none == [headers |-> <<>>]
        skipped == skip_empty_lines(b, 1)
        version == parse_version(b, skipped.at)
        space == CASE At(b, version.at) = EOF -> Status("Partial", 0)
                   [] At(b, version.at) = " " ->
                         Status("Complete", version.at + 1)
                   [] OTHER -> Status("Version", 0)
        code == parse_code(b, space.at)
        line == reason(b, code.at)
    IN  CASE skipped.st # "Complete" -> skipped @@ none
          [] version.st # "Complete" -> version @@ none
          [] space.st # "Complete" -> space @@ none
          [] code.st # "Complete" -> code @@ none
          [] line.st # "Complete" -> line @@ none
          [] OTHER -> parse_headers(b, line.at, <<>>)

\* ---- ResponseTrait::decode for FirecrackerVersion
\* str::parse::<usize>: an optional "+", then digits only, value at most
\* usize::MAX (64 bits); -1 stands for Err(ParseIntError). A value above
\* `cap` is returned as cap + 1: it is only ever compared with a length.
parse_usize(text, cap) ==
    LET body == StripPlus(text)
        significant == StripZeros(body)
        max == <<"1", "8", "4", "4", "6", "7", "4", "4", "0", "7", "3",
                 "7", "0", "9", "5", "5", "1", "6", "1", "5">>
    IN  IF \/ body = <<>>
           \/ \E i \in 1..Len(body) : body[i] \notin Digits
           \/ Len(significant) > Len(max)
           \/ Len(significant) = Len(max) /\ ~DigitsLeq(significant, max)
        THEN -1
        ELSE IF Len(significant) > Len(ToDecimal(cap)) THEN cap + 1
        ELSE IF DecimalValue(significant) > cap THEN cap + 1
        ELSE DecimalValue(significant)

\* serde_json::from_slice::<FirecrackerVersion>: the bodies tried are an
\* object with the one field and a string without escapes, or no JSON of
\* the struct at all.
from_slice(body) ==
    LET start == <<"{", "\"", "f", "i", "r", "e", "c", "r", "a", "c", "k",
                   "e", "r", "_", "v", "e", "r", "s", "i", "o", "n", "\"",
                   ":", "\"">>
        n == Len(start)
        plain == HeaderValueTokens \ {"\"", "\\", "\t"}
    IN  IF /\ Len(body) >= n + 2
           /\ SubSeq(body, 1, n) = start
           /\ SubSeq(body, Len(body) - 1, Len(body)) = <<"\"", "}">>
           /\ \A i \in (n + 1)..(Len(body) - 2) : body[i] \in plain
        THEN "Ok(FirecrackerVersion)"
        ELSE "Err(Event: serde_json decode)"

\* Status::is_partial, and one that never says so.
is_partial_never(status) == FALSE

is_partial(status) == status.st = "Partial"

\* ResponseTrait::decode. "panic" is an unwrap of an Err or of Partial, or
\* a slice past the end of the response.
decode(bytes) ==
    LET res == parse(bytes)
        body_start == res.at - 1
        found == {k \in DOMAIN res.headers :
                     to_lowercase(res.headers[k].name)
                     = <<"c", "o", "n", "t", "e", "n", "t", "-", "l", "e",
                         "n", "g", "t", "h">>}
        h == res.headers[CHOOSE k \in found : \A l \in found : k <= l]
        content_length == parse_usize(h.value, Len(bytes))
    IN  IF res.st \notin {"Complete", "Partial"} THEN "panic"
        ELSE IF is_partial(res) THEN "Err(Event: Incomplete response)"
        ELSE IF res.st # "Complete" THEN "panic"
        ELSE IF found = {} THEN "Err(Event: Bad HTTP response)"
        ELSE IF content_length = -1 THEN "panic"
        ELSE IF body_start + content_length > Len(bytes) THEN "panic"
        ELSE from_slice(SubSeq(bytes, body_start + 1,
                               body_start + content_length))

\* ---- the responses decode is tried with
\* A reply as Firecracker writes it, and one with the header name in lower
\* case and no other header.
WithLength ==
    {<<"H", "T", "T", "P", "/", "1", ".", "1", " ", "2", "0", "0", " ",
       "O", "K", "\r", "\n", "S", "e", "r", "v", "e", "r", ":", " ", "F",
       "i", "r", "e", "c", "r", "a", "c", "k", "e", "r", " ", "A", "P",
       "I", "\r", "\n", "C", "o", "n", "t", "e", "n", "t", "-", "L", "e",
       "n", "g", "t", "h", ":", " ", "3", "1", "\r", "\n", "\r", "\n", "{",
       "\"", "f", "i", "r", "e", "c", "r", "a", "c", "k", "e", "r", "_",
       "v", "e", "r", "s", "i", "o", "n", "\"", ":", "\"", "1", ".", "7",
       ".", "0", "\"", "}">>,
     <<"H", "T", "T", "P", "/", "1", ".", "1", " ", "2", "0", "0", " ",
       "O", "K", "\r", "\n", "c", "o", "n", "t", "e", "n", "t", "-", "l",
       "e", "n", "g", "t", "h", ":", " ", "3", "1", "\r", "\n", "\r", "\n",
       "{", "\"", "f", "i", "r", "e", "c", "r", "a", "c", "k", "e", "r",
       "_", "v", "e", "r", "s", "i", "o", "n", "\"", ":", "\"", "1", ".",
       "7", ".", "0", "\"", "}">>}

\* Complete headers without a length: 204 No Content as Firecracker writes
\* it, a 200 with a body all the same, and a status line without a reason
\* phrase and with no header at all.
WithoutLength ==
    {<<"H", "T", "T", "P", "/", "1", ".", "1", " ", "2", "0", "4", " ",
       "\r", "\n", "S", "e", "r", "v", "e", "r", ":", " ", "F", "i", "r",
       "e", "c", "r", "a", "c", "k", "e", "r", " ", "A", "P", "I", "\r",
       "\n", "\r", "\n">>,
     <<"H", "T", "T", "P", "/", "1", ".", "1", " ", "2", "0", "0", " ",
       "O", "K", "\r", "\n", "S", "e", "r", "v", "e", "r", ":", " ", "F",
       "i", "r", "e", "c", "r", "a", "c", "k", "e", "r", " ", "A", "P",
       "I", "\r", "\n", "\r", "\n", "{", "\"", "f", "i", "r", "e", "c",
       "r", "a", "c", "k", "e", "r", "_", "v", "e", "r", "s", "i", "o",
       "n", "\"", ":", "\"", "1", ".", "7", ".", "0", "\"", "}">>,
     <<"H", "T", "T", "P", "/", "1", ".", "0", " ", "2", "0", "0", "\r",
       "\n", "\r", "\n">>}

\* Where the header section of a well-formed response ends: the position
\* of the LF of its blank line.
HeaderEnd(bytes) ==
    LET blank == <<"\r", "\n", "\r", "\n">>
    IN  CHOOSE j \in 4..Len(bytes) :
            /\ SubSeq(bytes, j - 3, j) = blank
            /\ \A k \in 4..(j - 1) : SubSeq(bytes, k - 3, k) # blank

\* The stream ended in the header section.
MidHeader ==
    UNION {{SubSeq(r, 1, k) : k \in 0..(HeaderEnd(r) - 1)} :
              r \in WithLength \cup WithoutLength}

\* The stream ended in the body.
MidBody ==
    UNION {{SubSeq(r, 1, k) : k \in HeaderEnd(r)..(Len(r) - 1)} :
              r \in WithLength}

\* Not what a server writes: another protocol version, a length that is
\* no number, a negative length, a length with a sign and a body that is
\* not the struct, a length above usize::MAX, zero bytes in a header.
Malformed ==
    {<<"H", "T", "T", "P", "/", "2", " ", "2", "0", "0", "\r", "\n", "\r",
       "\n">>,
     <<"H", "T", "T", "P", "/", "1", ".", "1", " ", "2", "0", "0", " ",
       "O", "K", "\r", "\n", "c", "o", "n", "t", "e", "n", "t", "-", "l",
       "e", "n", "g", "t", "h", ":", " ", "a", "b", "c", "\r", "\n", "\r",
       "\n">>,
     <<"H", "T", "T", "P", "/", "1", ".", "1", " ", "2", "0", "0", " ",
       "O", "K", "\r", "\n", "c", "o", "n", "t", "e", "n", "t", "-", "l",
       "e", "n", "g", "t", "h", ":", " ", "-", "1", "\r", "\n", "\r", "\n">>,
     <<"H", "T", "T", "P", "/", "1", ".", "1", " ", "2", "0", "0", " ",
       "O", "K", "\r", "\n", "c", "o", "n", "t", "e", "n", "t", "-", "l",
       "e", "n", "g", "t", "h", ":", " ", "+", "2", "\r", "\n", "\r", "\n",
       "{", "}">>,
     <<"H", "T", "T", "P", "/", "1", ".", "1", " ", "2", "0", "0", " ",
       "O", "K", "\r", "\n", "c", "o", "n", "t", "e", "n", "t", "-", "l",
       "e", "n", "g", "t", "h", ":", " ", "1", "8", "4", "4", "6", "7",
       "4", "4", "0", "7", "3", "7", "0", "9", "5", "5", "1", "6", "1",
       "5", "0", "\r", "\n", "\r", "\n">>,
     <<"H", "T", "T", "P", "/", "1", ".", "1", " ", "2", "0", "0", " ",
       "O", "K", "\r", "\n", "S", "e", "r", "v">>
     \o <<"NUL", "NUL">>}

\* Replies with the status 400: one whose body is a fault message, as
\* Firecracker writes it, and one whose body is a FirecrackerVersion.
ErrorStatus ==
    {<<"H", "T", "T", "P", "/", "1", ".", "1", " ", "4", "0", "0", " ",
       "B", "a", "d", " ", "R", "e", "q", "u", "e", "s", "t", "\r", "\n",
       "S", "e", "r", "v", "e", "r", ":", " ", "F", "i", "r", "e", "c",
       "r", "a", "c", "k", "e", "r", " ", "A", "P", "I", "\r", "\n", "C",
       "o", "n", "t", "e", "n", "t", "-", "L", "e", "n", "g", "t", "h",
       ":", " ", "2", "1", "\r", "\n", "\r", "\n", "{", "\"", "f", "a",
       "u", "l", "t", "_", "m", "e", "s", "s", "a", "g", "e", "\"", ":",
       "\"", "x", "\"", "}">>,
     <<"H", "T", "T", "P", "/", "1", ".", "1", " ", "4", "0", "0", " ",
       "B", "a", "d", " ", "R", "e", "q", "u", "e", "s", "t", "\r", "\n",
       "S", "e", "r", "v", "e", "r", ":", " ", "F", "i", "r", "e", "c",
       "r", "a", "c", "k", "e", "r", " ", "A", "P", "I", "\r", "\n", "C",
       "o", "n", "t", "e", "n", "t", "-", "L", "e", "n", "g", "t", "h",
       ":", " ", "3", "1", "\r", "\n", "\r", "\n", "{", "\"", "f", "i",
       "r", "e", "c", "r", "a", "c", "k", "e", "r", "_", "v", "e", "r",
       "s", "i", "o", "n", "\"", ":", "\"", "1", ".", "7", ".", "0", "\"",
       "}">>}

ResponseInputs ==
    WithLength \cup WithoutLength \cup MidHeader \cup MidBody \cup Malformed
    \cup ErrorStatus

\* ---- encode and decode on their own
codecUnused == <<instanceVars, result, agentVars, linkPath, eventVars>>

encode_call ==
    /\ phase = "codec"
    /\ encoded = <<>>
    /\ encoded' = encode(codecEvent)
    /\ UNCHANGED <<codecUnused, codecEvent, response, decoded>>

decode_call ==
    /\ phase = "codec"
    /\ codecEvent = GetFirecrackerVersion
    /\ decoded = "none"
    /\ decoded' = decode(response)
    /\ UNCHANGED <<codecUnused, codecEvent, response, encoded>>

InitCodec ==
    /\ NoInstance
    /\ AgentIdle
    /\ linkPath = NoPath
    /\ EventIdle
    /\ phase = "codec"
    /\ codecEvent \in Events
    /\ encoded = <<>>
    /\ response \in IF codecEvent = GetFirecrackerVersion
                    THEN ResponseInputs ELSE {<<>>}
    /\ decoded = "none"

NextCodec == encode_call \/ decode_call

SpecCodec == InitCodec /\ [][NextCodec]_vars

\* ====================================================== properties checked
Jailed == jailer_workspace_dir # NoPath

StartFailures == {"Err(Agent: Connection timed out)", "Err(IO: connect)", "panic"}

\* The state a start_vmm call returned (or unwound) into.
AfterStartVmm == phase = "live" /\ lastOp = "start_vmm"

\* C1: once an Instance none of whose start_vmm calls succeeded has been
\* torn down, every process it spawned has been sent the termination
\* signal, the control-socket file is absent and the jail workspace
\* directory is absent.
C1_FailedStartLeavesNothing ==
    (phase = "dropped" /\ okStarts = 0 /\ spawned # <<>>) =>
        /\ Range(spawned) \subseteq signalled
        /\ socket_on_host \notin files
        /\ Jailed => jailer_workspace_dir \notin dirs

\* C2: after the default destruction of an FStack the pushed actions have
\* been executed in exactly the reverse of push order, each once, and none
\* is pending.
C2_ReverseOrderEachOnce ==
    phase = "dropped" => executed = Reverse(pushed) /\ fstack = <<>>

C2_Witness ==
    /\ phase = "dropped"
    /\ Len(pushed) >= 3
    /\ pushed[1] # pushed[2] /\ pushed[2] # pushed[3] /\ pushed[1] # pushed[3]
    /\ Len(executed) = Len(pushed)
    /\ executed[1] = pushed[Len(pushed)]

\* C3: after cancel() none of the pending actions has been executed: no
\* process was signalled and no file or directory was removed, during the
\* cancel or at the destruction of the stack that ends it.
C3_CancelRunsNothing ==
    phase = "cancelled" =>
        /\ executed = <<>>
        /\ signalled = {}
        /\ files = StackHostFiles
        /\ dirs = StackHostDirs

C3_Witness ==
    /\ phase = "cancelled"
    /\ Len(pushed) >= 2
    /\ \E i \in 1..Len(pushed) : pushed[i].kind = "TerminateProcess"
    /\ \E i \in 1..Len(pushed) : pushed[i].kind = "RemoveFile"

\* C4: in every state in which the connect or the pid discovery of
\* start_vmm has failed, a terminate-process action for the spawned process
\* id is pending on the rollback stack.
C4_TerminatePendingOnFailure ==
    (AfterStartVmm /\ result \in StartFailures) =>
        TerminateProcess(child) \in Range(fstack)

\* C5 (as stated): when a step of start_vmm has failed, the rollback actions
\* registered so far have been executed by that failure, the Instance still
\* being alive.
C5_FailureRunsRollback ==
    (AfterStartVmm /\ result \in StartFailures) =>
        fstack = <<>> /\ executed = Reverse(pushed)

\* C5 (amended): a failed start_vmm executes no rollback action; every
\* action registered so far stays pending while the Instance lives, and all
\* of them are executed, in reverse order of registration, when the
\* Instance is destroyed.
C5_RollbackOnlyAtTeardown ==
    /\ phase = "live" => executed = <<>> /\ fstack = pushed
    /\ phase = "dropped" => executed = Reverse(pushed) /\ fstack = <<>>

C5_Witness ==
    /\ phase = "dropped"
    /\ okStarts = 0
    /\ result \in StartFailures
    /\ Len(pushed) >= 2
    /\ executed = Reverse(pushed)

\* C6: a configuration/control method called while no agent is connected
\* returns the instance error 'No agent spawned', writes no request,
\* creates no hard link and leaves the Instance unchanged.
C6_NoAgentNoEffect ==
    [][(~agent /\ calls' = calls + 1) =>
          /\ result' = "Err(Instance: No agent spawned)"
          /\ UNCHANGED <<instanceFields, fstack, hostVars, sent, executed>>]_vars

C6_Witness ==
    /\ lastOp = "call"
    /\ ~agent
    /\ spawned # <<>>
    /\ calls = 2
    /\ result = "Err(Instance: No agent spawned)"
    /\ sent = <<>>

\* C7: while the Instance lives, the agent is present if and only if a
\* start_vmm call on it has completed successfully.
C7_AgentIffStarted ==
    phase = "live" => (agent <=> okStarts > 0)

\* C8: once the guest pid is populated it is never assigned another value
\* by any later operation.
C8_GuestPidAssignedOnce ==
    [][firecracker_pid # NoPid => firecracker_pid' = firecracker_pid]_vars

\* C9 (as stated): after a successful jailed start_vmm the jailer pid
\* differs from the guest pid.
C9_PidsDistinct ==
    (AfterStartVmm /\ result = "Ok" /\ Jailed) => jailer_pid # firecracker_pid

\* C9 (amended): after a successful jailed start_vmm the jailer pid is the
\* spawned child's id, and it differs from the guest pid exactly when the
\* number in the pid file differs from the spawned child's id.
C9_PidsDistinctIffFileDiffers ==
    (AfterStartVmm /\ result = "Ok" /\ Jailed) =>
        /\ jailer_pid = child
        /\ (jailer_pid # firecracker_pid) <=> (DecimalValue(StripPlus(pidfile)) # child)

C9_Witness ==
    /\ AfterStartVmm /\ result = "Ok" /\ Jailed
    /\ pidfile = <<"1">>
    /\ child = 1
    /\ jailer_pid = firecracker_pid

\* C10: after a successful start_vmm, a jailed Instance has the guest pid
\* equal to the integer written in <jail_workspace>/<exec_name>.pid and
\* the jailer pid equal to the spawned child's id; a bare Instance has the
\* guest pid equal to the spawned child's id and no jailer pid.
C10_PidsAfterStart ==
    (AfterStartVmm /\ result = "Ok") =>
        IF Jailed
        THEN /\ PidFile(jailer_workspace_dir) \in files
             /\ firecracker_pid = DecimalValue(StripPlus(pidfile))
             /\ jailer_pid = child
        ELSE /\ firecracker_pid = child
             /\ jailer_pid = NoPid

C10_Witness ==
    /\ AfterStartVmm /\ result = "Ok" /\ Jailed
    /\ pidfile = <<"1", "2">>
    /\ firecracker_pid = 12
    /\ jailer_pid = child

\* ------------------------------------------- calls on a started Instance
\* The state a configuration / control call returned into.
AfterCall == phase = "live" /\ lastOp = "call" /\ agent

Sends == {i \in DOMAIN effects : effects[i].op = "send_request"}

FailedLinks == {i \in DOMAIN effects : effects[i].op = "hard_link" /\ ~effects[i].ok}

\* C16: a configuration / control call on a started Instance that returns
\* an error leaves the Instance (agent, pids, rollback stack) and the host
\* files, the links under the jail root among them, as they were before
\* the call, so that a repeat of the call meets the same state.
C16_FailedCallChangesNothing ==
    [][(agent /\ calls' = calls + 1 /\ result' # "Ok")
          => UNCHANGED <<instanceFields, fstack, files, dirs>>]_vars

\* C17: when a path-carrying call on a jailed Instance writes its request,
\* it has before that hard-linked every host path of the payload under the
\* jail root, in payload order, and the request carries for each path the
\* link's path relative to the jail root; when a link fails, or a path
\* cannot be mapped, no request is written, and otherwise one is.
C17_LinkedThenSentRelative ==
    (AfterCall /\ Jailed /\ called.method \in LinkMethods) =>
        LET n == Len(called.paths)
        IN  /\ \A i \in Sends :
                  /\ i = n + 1
                  /\ Len(effects[i].request.paths) = n
                  /\ effects[i].ok => sent # <<>> /\ Last(sent) = effects[i].request
                  /\ \A j \in 1..n :
                        LET rel == effects[i].request.paths[j]
                        IN  /\ ~is_absolute(rel)
                            /\ rel # called.paths[j]
                            /\ effects[j] = HardLink(called.paths[j],
                                                     jailer_workspace_dir \o rel, TRUE)
                            /\ jailer_workspace_dir \o rel \in files
            /\ FailedLinks # {} => Sends = {} /\ result = "Err(IO)"
            /\ result \in {"Err(Configuration)",
                           "Err(Instance: Fail to strip prefix)"} => Sends = {}
            /\ (FailedLinks = {} /\ result \in EventOutcomes) => Sends # {}

C17_Witness ==
    /\ AfterCall /\ Jailed
    /\ called = [method |-> "put_guest_boot_source",
                 paths |-> <<InitrdFile, <<"/", "run", "k.img">>>>]
    /\ chroot_strategy = "FullLinkStrategy"
    /\ Sends = {3}
    /\ sent # <<>>
    /\ Last(sent).paths = <<<<"run", "i.img">>, <<"run", "k.img">>>>

\* C18: a call on a bare Instance makes exactly one operation, the send of
\* a request with the method's endpoint and the caller's paths unchanged,
\* and leaves the host's files and directories as they were.
C18_BarePassThrough ==
    [][(~Jailed /\ agent /\ calls' = calls + 1) =>
          /\ UNCHANGED <<files, dirs, pidfile>>
          /\ Len(effects') = 1
          /\ effects'[1].op = "send_request"
          /\ effects'[1].request.endpoint = Endpoint(called'.method)
          /\ effects'[1].request.paths = called'.paths
          /\ sent' = IF effects'[1].ok THEN Append(sent, effects'[1].request)
                     ELSE sent]_vars

C18_Witness ==
    /\ AfterCall /\ ~Jailed
    /\ called = [method |-> "put_guest_drive_by_id", paths |-> <<<<"/", "a", "k.img">>>>]
    /\ result = "Ok"
    /\ Last(sent).paths = <<<<"/", "a", "k.img">>>>
    /\ files = HostFiles \cup {DEFAULT_API_SOCK}

RemovalFlagged == Jailed /\ remove_jailer_workspace_dir = "Some(true)"

RemovalsIn(actions) ==
    {i \in DOMAIN actions : actions[i] = RemoveDirectory(jailer_workspace_dir)}

\* C20: start_vmm registers a remove-directory action, for the workspace
\* and once each time it has spawned, exactly when the Instance is jailed
\* and remove_jailer_workspace_dir is Some(true); so a teardown after a
\* spawn runs the removal exactly in that case, and the workspace directory
\* is gone after a teardown the operating system permits exactly in that
\* case.
C20_WorkspaceRemovedIffFlagged ==
    /\ \A i \in DOMAIN pushed :
           pushed[i].kind = "RemoveDirectory" => i \in RemovalsIn(pushed)
    /\ Cardinality(RemovalsIn(pushed)) = IF RemovalFlagged THEN Len(spawned) ELSE 0
    /\ (phase = "live" /\ spawned # <<>> /\ Jailed) =>
          ((jailer_workspace_dir \notin
               Rollback(fstack, [i \in DOMAIN fstack |-> TRUE], Host).dirs)
           <=> RemovalFlagged)
    /\ (phase = "dropped" /\ spawned # <<>> /\ Jailed) =>
          /\ (RemovalsIn(executed) # {}) <=> RemovalFlagged
          /\ jailer_workspace_dir \notin dirs => RemovalFlagged

C20_Witness ==
    /\ phase = "dropped"
    /\ RemovalFlagged
    /\ spawned # <<>>
    /\ RemovalsIn(executed) # {}
    /\ jailer_workspace_dir \notin dirs

\* ------------------------------------------------------- SocketAgent::new
Returned == phase = "agent" /\ connPc = "returned"

\* Every state of the socket path that new met was absent or refusing.
NeverAppeared == seen \subseteq {"absent", "refused"}

\* C11: the blocking new always returns; while it has not, less than the
\* timeout plus one sleep and two delays has elapsed; and when every connect
\* attempt met a missing or refusing socket it returns the connection-timeout
\* error, with the elapsed time at or past the timeout.
C11_BlockingConnectTimesOut ==
    /\ [](rt = "_rt_std" /\ phase = "agent" /\ connPc # "returned"
            => elapsed < timeout + SleepMs + 2 * JitterMs)
    /\ [](rt = "_rt_std" /\ Returned /\ NeverAppeared
            => result = TimeoutError /\ elapsed >= timeout)
    /\ <>(rt = "_rt_std" => Returned)

C11_Witness ==
    /\ rt = "_rt_std" /\ Returned
    /\ timeout = StartTimeoutMs
    /\ seen = {"absent", "refused"}
    /\ result = TimeoutError
    /\ sleeps = StartTimeoutMs \div SleepMs
    /\ attempts = sleeps + 1

\* C12: in the cooperative modes, new on a socket path that never appears
\* eventually returns the connection-timeout error.
C12_CooperativeConnectTimesOut ==
    <>(rt # "_rt_std" =>
          \/ seen \cap (SockStates \ {"absent"}) # {}
          \/ Returned /\ result = TimeoutError)

\* C13: in the blocking new, an attempt failing with another kind than
\* NotFound / ConnectionRefused returns that error at once, without a
\* sleep; an attempt failing with NotFound or ConnectionRefused either is
\* followed by a sleep of at least 100 ms and another attempt, when less
\* than the timeout has elapsed, or returns the connection-timeout error;
\* nothing happens after a return.
C13_ConnectErrorHandling ==
    [][ /\ connPc # "returned"
        /\ (rt = "_rt_std" /\ attempts' = attempts + 1) =>
              /\ sleeps' = sleeps
              /\ lastKind' = "Ok" => connPc' = "returned" /\ result' = "Ok"
              /\ lastKind' \notin {"Ok", "NotFound", "ConnectionRefused"} =>
                    connPc' = "returned" /\ result' = "Err(IO: connect)"
              /\ lastKind' \in {"NotFound", "ConnectionRefused"} =>
                    IF elapsed' >= timeout
                    THEN connPc' = "returned" /\ result' = TimeoutError
                    ELSE connPc' = "sleep"
        /\ (rt = "_rt_std" /\ connPc = "sleep" /\ socketState' = socketState) =>
              /\ sleeps' = sleeps + 1
              /\ elapsed' >= elapsed + SleepMs
              /\ attempts' = attempts
              /\ connPc' = "connect"
      ]_vars

C13_Witness ==
    /\ rt = "_rt_std" /\ Returned
    /\ lastKind = "PermissionDenied"
    /\ result = "Err(IO: connect)"
    /\ seen = {"absent", "refused", "denied"}
    /\ attempts = 3 /\ sleeps = 2

\* ----------------------------------------------- SocketAgent::recv_response
\* recv_response returned Ok(vec) having read everything the peer wrote.
ReceivedAll ==
    phase = "recv" /\ recvPc = "returned" /\ result = "Ok" /\ readPos = Len(peer)

\* The reads were full buffers followed by one short (or empty) one.
FullThenShort ==
    /\ chunks # <<>>
    /\ \A i \in 1..(Len(chunks) - 1) : chunks[i] = MAX_BUFFER_SIZE
    /\ Last(chunks) < MAX_BUFFER_SIZE

\* C14: the vector recv_response returns is exactly the bytes the peer
\* wrote: a response of n bytes yields n bytes.
C14_ResponseIsPeerBytes == ReceivedAll => vec = peer

\* C15: when a message of n >= 1 bytes has been read as full 64-byte chunks
\* followed by one short chunk, the first n bytes of the vector returned
\* are the message's bytes in order; the vector holds one whole buffer for
\* every read that returned bytes.
C15_PrefixIsPeerBytes ==
    (ReceivedAll /\ Len(peer) >= 1 /\ FullThenShort) =>
        /\ Len(vec) = MAX_BUFFER_SIZE * Cardinality({i \in DOMAIN chunks : chunks[i] > 0})
        /\ Len(vec) >= Len(peer)
        /\ SubSeq(vec, 1, Len(peer)) = peer

C15_Witness ==
    /\ ReceivedAll
    /\ Len(peer) = 2 * MAX_BUFFER_SIZE + 1
    /\ chunks = <<MAX_BUFFER_SIZE, MAX_BUFFER_SIZE, 1>>
    /\ Len(vec) = 3 * MAX_BUFFER_SIZE
    /\ SubSeq(vec, 1, Len(peer)) = peer

\* ------------------------------------------------------ failures in rollback
\* C21: when the stack is dropped, an action whose operation fails (the
\* file or directory is not there, the operating system refuses the call,
\* kill cannot be run) is logged and passed over: every action pending at
\* the drop is executed, the ones after a failed one included, in reverse
\* push order, and the drop hands no failure to its caller.
C21_FailureDoesNotStopRollback ==
    [][(phase # "dropped" /\ phase' = "dropped") =>
          /\ Len(executed') = Len(fstack)
          /\ \A i \in 1..Len(fstack) : executed'[i] = fstack[Len(fstack) + 1 - i]
          /\ failed' \subseteq 1..Len(fstack)
          /\ \A i \in failed' : \A j \in (i + 1)..Len(fstack) :
                executed'[j] = fstack[Len(fstack) + 1 - j]
          /\ fstack' = <<>>
          /\ result' = result]_vars

C21_Witness ==
    /\ phase = "dropped"
    /\ Len(pushed) = 3
    /\ failed = {2}
    /\ executed[1] = RemoveDirectory(WorkspaceDir)
    /\ executed[2] = RemoveFile(JailedSocket)
    /\ executed[3].kind = "TerminateProcess"
    /\ WorkspaceDir \notin dirs
    /\ signalled = {executed[3].pid}

\* --------------------------------------------- terminate actions after start
\* C24: after a successful jailed start_vmm a terminate-process action for
\* the jailer (spawned) pid and one for the guest pid are pending on the
\* rollback stack, and once the Instance is torn down both actions have
\* been executed.
C24_BothTerminatesRegistered ==
    /\ (AfterStartVmm /\ result = "Ok" /\ Jailed) =>
          /\ TerminateProcess(jailer_pid) \in Range(fstack)
          /\ TerminateProcess(firecracker_pid) \in Range(fstack)
    /\ (phase = "dropped" /\ okStarts > 0 /\ Jailed) =>
          /\ TerminateProcess(jailer_pid) \in Range(executed)
          /\ TerminateProcess(firecracker_pid) \in Range(executed)

\* ------------------------------------------------------ lifecycle of calls
\* C25: a control call takes effect (its request is written and answered
\* Ok) only along Running -> Paused (pause), Paused -> Running (resume)
\* and -> Stopped (stop): directly after a stop that took effect no
\* control call takes effect, directly after a pause no further pause
\* does, and directly after a start or a resume no resume does.
C25_ControlFollowsLifecycle ==
    [][(AfterCall /\ result = "Ok" /\ calls' = calls + 1
          /\ sent' # sent /\ result' = "Ok") =>
          /\ ~(called.method = "stop"
                 /\ called'.method \in {"start", "pause", "resume", "stop"})
          /\ ~(called.method = "pause" /\ called'.method = "pause")
          /\ ~(called.method \in {"start", "resume"} /\ called'.method = "resume")]_vars

\* ------------------------------------------------- ChrootStrategy on its own
\* C26: for every root and every absolute host path with a final file
\* name, chroot_path returns under the Naive strategy the root joined with
\* the path's last component, and under the Full strategy the root joined
\* with the path's components after the leading separator; for root /root
\* and host path /a/b/c.img these are /root/c.img and /root/a/b/c.img.
C26_ChrootPathMapping ==
    (phase = "chroot" /\ calls > 0) =>
        LET path == called.paths[1]
            root == jailer_workspace_dir
        IN  (is_absolute(path) /\ Last(path) \notin {"/", ".."}) =>
              /\ chroot_strategy = "NaiveLinkStrategy" =>
                    linkPath = Append(root, Last(path))
              /\ chroot_strategy = "FullLinkStrategy" =>
                    linkPath = root \o SubSeq(path, 2, Len(path))
              /\ (root = <<"/", "root">> /\ path = ExamplePath) =>
                    linkPath = IF chroot_strategy = "NaiveLinkStrategy"
                               THEN <<"/", "root", "c.img">>
                               ELSE <<"/", "root", "a", "b", "c.img">>

C26_Witness ==
    /\ phase = "chroot" /\ lastOp = "jailed_link"
    /\ jailer_workspace_dir = <<"/", "root">>
    /\ chroot_strategy = "FullLinkStrategy"
    /\ called.paths = <<ExamplePath>>
    /\ linkPath = <<"/", "root", "a", "b", "c.img">>
    /\ result = "Ok"

\* C27: under the Naive strategy, once a host file is linked into the
\* jail, link_file of another host path with the same file name maps to
\* the same destination and fails on it with an io error, the first link
\* staying where it is and the only one made there; under the Full
\* strategy two distinct absolute host paths never get the same
\* destination.
C27_NaiveCollidesFullDoesNot ==
    phase = "chroot" =>
        \A i \in DOMAIN effects : \A j \in DOMAIN effects :
            (i < j /\ effects[i].origin # effects[j].origin) =>
              /\ (/\ chroot_strategy = "NaiveLinkStrategy"
                  /\ effects[i].ok
                  /\ Last(effects[i].origin) = Last(effects[j].origin)) =>
                    /\ effects[j].link = effects[i].link
                    /\ ~effects[j].ok
                    /\ effects[i].link \in files
                    /\ (/\ j = Len(effects) /\ lastOp = "link_file"
                        /\ linkPath # NoPath) =>
                          result = "Err(IO)"
              /\ (/\ chroot_strategy = "FullLinkStrategy"
                  /\ is_absolute(effects[i].origin)
                  /\ is_absolute(effects[j].origin)) =>
                    effects[i].link # effects[j].link

C27_Witness ==
    /\ phase = "chroot" /\ lastOp = "link_file"
    /\ chroot_strategy = "NaiveLinkStrategy"
    /\ Len(effects) = 2
    /\ effects[1] = HardLink(<<"/", "a", "c.img">>,
                             jailer_workspace_dir \o <<"c.img">>, TRUE)
    /\ effects[2] = HardLink(<<"/", "b", "c.img">>,
                             jailer_workspace_dir \o <<"c.img">>, FALSE)
    /\ result = "Err(IO)"

\* ------------------------------------------------------- SocketAgent::event
\* The calls whose request is on the stream and which have not returned.
InFlight == {a \in DOMAIN wire : evs[wire[a]].pc # "returned"}

\* C22: the requests are on the channel in the order their calls were
\* issued, one for each call that wrote one and none twice; a call that has
\* not returned is the last one issued, so a request is written only when
\* every earlier call has returned, and at most one request is in flight.
C22_CallsSequentialInOrder ==
    phase = "event" =>
        /\ \A a \in DOMAIN wire : \A b \in DOMAIN wire : a < b => wire[a] < wire[b]
        /\ Len(sent) = Len(wire)
        /\ \A a \in DOMAIN wire : sent[a] = Request(evs[wire[a]].method, <<>>)
        /\ \A i \in DOMAIN evs : evs[i].pc # "returned" => i = Len(evs)
        /\ \A a \in DOMAIN wire : \A i \in 1..(wire[a] - 1) :
              a = Len(wire) => evs[i].pc = "returned"
        /\ Cardinality(InFlight) <= 1

C22_Witness ==
    /\ phase = "event"
    /\ Len(evs) = 2
    /\ wire = <<1, 2>>
    /\ evs[1].pc = "returned" /\ evs[1].result = "Ok"
    /\ evs[1].method # evs[2].method
    /\ evs[2].pc = "recv_response"
    /\ InFlight = {2}

\* C23: a call of event makes its steps in the order encode, send_request,
\* recv_response, decode, each at most once, and makes none after a step
\* that failed: nothing is written when the encoding fails, nothing is
\* received when the send fails, no step is repeated; the call returns the
\* outcome of its last step, the first error if there was one.
C23_OneExchangeFirstError ==
    phase = "event" =>
        \A i \in DOMAIN evs :
            LET steps == evs[i].steps
                n == Len(steps)
            IN  /\ n <= Len(EventSteps)
                /\ \A k \in 1..n : steps[k].op = EventSteps[k]
                /\ \A k \in 1..(n - 1) : steps[k].outcome = "Ok"
                /\ (i \in Range(wire)) <=> (n >= 2 /\ steps[2].outcome = "Ok")
                /\ Cardinality({a \in DOMAIN wire : wire[a] = i}) <= 1
                /\ evs[i].pc = "returned" =>
                      /\ n >= 1
                      /\ evs[i].result = steps[n].outcome
                      /\ steps[n].outcome = "Ok" => n = Len(EventSteps)
                /\ evs[i].pc # "returned" =>
                      /\ evs[i].result = "pending"
                      /\ evs[i].pc = EventSteps[n + 1]

C23_Witness ==
    /\ phase = "event"
    /\ Len(evs) = 2
    /\ evs[1].pc = "returned"
    /\ evs[1].steps = <<Step("encode", "Ok"), Step("send_request", "Err(IO)")>>
    /\ evs[1].result = "Err(IO)"
    /\ evs[2].pc = "returned"
    /\ evs[2].steps = <<Step("encode", "Err(Event: serde_json encode)")>>
    /\ wire = <<>>

\* C30: recv_response returns Ok as soon as a read has returned fewer than
\* 64 bytes, zero included, and not before; a read that would block changes
\* nothing and is followed by another read; and recv_response returns
\* whenever the peer's bytes are not a whole number of 64-byte chunks or
\* the peer closes the stream.
C30_ReceiveTerminates ==
    /\ [](phase = "recv" =>
            /\ \A k \in 1..(Len(chunks) - 1) : chunks[k] = MAX_BUFFER_SIZE
            /\ (chunks # <<>> /\ Last(chunks) < MAX_BUFFER_SIZE) =>
                  recvPc = "returned" /\ result = "Ok"
            /\ (recvPc = "returned" /\ result = "Ok") =>
                  chunks # <<>> /\ Last(chunks) < MAX_BUFFER_SIZE)
    /\ [][wouldBlocks' # wouldBlocks =>
            /\ recvPc = "read" /\ recvPc' = "read"
            /\ UNCHANGED <<result, vec, buf, readPos, chunks>>]_vars
    /\ (phase = "recv" /\ (Len(peer) % MAX_BUFFER_SIZE # 0 \/ ~peerOpen)) =>
          <>(recvPc = "returned")

C30_Witness ==
    /\ phase = "recv" /\ recvPc = "returned" /\ result = "Ok"
    /\ peerOpen
    /\ wouldBlocks >= 1
    /\ chunks = <<MAX_BUFFER_SIZE, 36>>
    /\ readPos = Len(peer)

\* ------------------------------------------------------------ encode, decode
\* C29: an encoded request starts with the line "METHOD PATH HTTP/1.0" and
\* CRLF. For the Empty payload only a blank line follows. For any other
\* payload there follow "Content-Length: ", a decimal number equal to the
\* byte length of the JSON body, CRLF, a blank line, and the JSON body.
C29_EncodeFormat ==
    encoded # <<>> =>
        LET line == codecEvent.method \o <<" ">> \o codecEvent.path
                    \o <<" ", "H", "T", "T", "P", "/", "1", ".", "0",
                         "\r", "\n">>
            rest == SubSeq(encoded, Len(line) + 1, Len(encoded))
            body == to_vec(codecEvent.payload)
            tail == <<"\r", "\n", "\r", "\n">> \o body
            length == <<"C", "o", "n", "t", "e", "n", "t", "-", "L", "e",
                        "n", "g", "t", "h", ":", " ">>
            number == SubSeq(rest, Len(length) + 1, Len(rest) - Len(tail))
        IN  /\ Len(encoded) >= Len(line)
            /\ SubSeq(encoded, 1, Len(line)) = line
            /\ codecEvent.payload = Empty => rest = <<"\r", "\n">>
            /\ codecEvent.payload # Empty =>
                  /\ Len(rest) > Len(length) + Len(tail)
                  /\ SubSeq(rest, 1, Len(length)) = length
                  /\ \A i \in DOMAIN number : number[i] \in Digits
                  /\ DecimalValue(number) = Len(body)
                  /\ SubSeq(rest, Len(rest) - Len(tail) + 1, Len(rest)) = tail
            /\ codecEvent = GetFirecrackerVersion =>
                  encoded = <<"G", "E", "T", " ", "/", "v", "e", "r", "s", "i", "o",
                    "n", " ", "H", "T", "T", "P", "/", "1", ".", "0", "\r",
                    "\n", "\r", "\n">>

C29_Witness ==
    /\ codecEvent = PatchBalloonStatsInterval(3600)
    /\ encoded =
         <<"P", "A", "T", "C", "H", " ", "/", "b", "a", "l", "l", "o", "o",
           "n", "/", "s", "t", "a", "t", "i", "s", "t", "i", "c", "s", " ",
           "H", "T", "T", "P", "/", "1", ".", "0", "\r", "\n", "C", "o",
           "n", "t", "e", "n", "t", "-", "L", "e", "n", "g", "t", "h", ":",
           " ", "3", "3", "\r", "\n", "\r", "\n", "{", "\"", "s", "t", "a",
           "t", "s", "_", "p", "o", "l", "l", "i", "n", "g", "_", "i", "n",
           "t", "e", "r", "v", "a", "l", "_", "s", "\"", ":", "3", "6",
           "0", "0", "}">>

\* C28: decode of a complete response without a Content-Length header
\* returns the protocol error "Bad HTTP response", and decode of a response
\* that ends inside its header section returns the protocol error
\* "Incomplete response"; it panics in neither case.
C28_DecodeProtocolErrors ==
    decoded # "none" =>
        /\ response \in WithoutLength =>
              decoded = "Err(Event: Bad HTTP response)"
        /\ response \in MidHeader =>
              decoded = "Err(Event: Incomplete response)"

C28_Witness ==
    /\ response \in WithoutLength
    /\ Len(response) > HeaderEnd(response)
    /\ decoded = "Err(Event: Bad HTTP response)"

\* C34: decode never aborts: whatever the bytes, it returns a payload or a
\* protocol error.
C34_DecodeTotal == decoded # "panic"

\* C35: a response with the status 400 is never decoded into a payload.
C35_ErrorStatusIsError ==
    (decoded # "none" /\ response \in ErrorStatus) =>
        decoded # "Ok(FirecrackerVersion)"

\* ------------------------------------------------- chroot_path and the root
\* C38: whenever chroot_path succeeds, for either strategy, its result has
\* the root as a path prefix; and after a link_file that returned Ok,
\* stripping the root from the link does not fail.
C38_ResultUnderRoot ==
    (phase = "chroot" /\ lastOp \in {"jailed_link", "link_file"}
        /\ linkPath # NoPath) =>
        /\ IsPrefix(jailer_workspace_dir, linkPath)
        /\ (lastOp = "link_file" /\ result = "Ok") =>
              strip_prefix(linkPath, jailer_workspace_dir) # NoPath

C38_Witness ==
    /\ phase = "chroot" /\ lastOp = "link_file" /\ result = "Ok"
    /\ chroot_strategy = "NaiveLinkStrategy"
    /\ jailer_workspace_dir = <<"/", "root">>
    /\ called.paths = <<ExamplePath>>
    /\ linkPath = <<"/", "root", "c.img">>

\* C39: every hard link made by link_file lies inside the jail root once
\* the ".." components of its path are resolved.
C39_LinksInsideJail ==
    phase = "chroot" =>
        \A k \in DOMAIN effects :
            effects[k].ok =>
                IsPrefix(jailer_workspace_dir,
                         Resolve([files |-> files, dirs |-> dirs],
                                 effects[k].link))

\* ------------------------------------------------------ order of the teardown
\* C32: when an Instance whose last start_vmm succeeded is dropped, the
\* rollback first signals the guest process, then removes the socket
\* file, and then, when the removal of the workspace is registered,
\* removes the workspace directory; when it is not registered, no
\* directory is removed.
C32_TeardownOrder ==
    (phase = "dropped" /\ okStarts >= 1 /\ result = "Ok") =>
        /\ Len(executed) >= 2
        /\ executed[1] = TerminateProcess(firecracker_pid)
        /\ executed[2] = RemoveFile(socket_on_host)
        /\ removes_workspace(Self) =>
              /\ Len(executed) >= 3
              /\ executed[3] = RemoveDirectory(jailer_workspace_dir)
        /\ ~removes_workspace(Self) =>
              \A i \in DOMAIN executed : executed[i].kind # "RemoveDirectory"

C32_Witness ==
    /\ phase = "dropped" /\ okStarts = 1 /\ result = "Ok"
    /\ jailer_pid = 1 /\ firecracker_pid = 2
    /\ executed = <<TerminateProcess(2), RemoveFile(JailedSocket),
                    RemoveDirectory(WorkspaceDir)>>
    /\ signalled = {2}
    /\ JailedSocket \notin files
    /\ WorkspaceDir \notin dirs

C36_NoLinkAfterFailedRequest ==
    (/\ AfterCall /\ Jailed /\ called.method = "create_snapshot"
     /\ effects # <<>>
     /\ (~effects[1].ok \/ result = "Err(Event)")) =>
        \A i \in DOMAIN effects : ~(effects[i].op = "hard_link" /\ effects[i].ok)

\* C37: no path in a request written by a path-carrying call of a jailed
\* Instance, create_snapshot included, is absolute or has the jail root on
\* the host as a prefix.
C37_SentPathsRelative ==
    (AfterCall /\ Jailed /\ called.method \in LinkMethods \cup {"create_snapshot"}) =>
        \A i \in Sends :
            \A j \in DOMAIN effects[i].request.paths :
                /\ ~is_absolute(effects[i].request.paths[j])
                /\ ~IsPrefix(jailer_workspace_dir, effects[i].request.paths[j])

\* ------------------------------------------- responses over one stream
\* C31: the bytes a successful recv_response hands to decode are bytes of
\* the response to the call that made it (or padding), however the reads
\* split what the peer wrote: none of them belongs to the response of an
\* earlier call.
C31_OwnResponseOnly ==
    (phase = "recv" /\ recvPc = "returned" /\ result = "Ok") =>
        \A i \in DOMAIN vec : vec[i] \in {0, calls + 1}

====
